---- MODULE Spec2Model ----
(***************************************************************************)
(* Verification model of the polling/notification engine of ccbbbot:       *)
(*   - TornAPIClient._make_request (modules/war.py, modules/bounty.py):    *)
(*     request spacing, response cache, retry loop;                        *)
(*   - WarMonitor (modules/war.py): the conflict monitor loop, its         *)
(*     persisted state and its create-vs-edit decision;                    *)
(*   - BountyMonitor (modules/bounty.py): the dedup cache and its loop.    *)
(* Time in the client part is counted in tenths of a second.               *)
(***************************************************************************)
EXTENDS Integers, Sequences, FiniteSets, TLC

VARIABLES
    clientKind,   \* which TornAPIClient class the instance is: "war" | "bounty"
    sinceLast,    \* loop.time() - self.last_request, saturated at RateLimitDelay
    cacheFresh,   \* war client: url -> an unexpired entry is in self.cache
    tasks,        \* per calling task: the position and locals of its _make_request
    callers,      \* the tasks that call into this client instance
    lastGap,      \* age of last_request when the request now in flight was sent
    lastSender    \* the task whose request was sent last, while it is in flight

clientVars == <<clientKind, sinceLast, cacheFresh, tasks, callers, lastGap, lastSender>>

VARIABLES
    wNow,         \* conflict monitor: the clock its loop reads, in poll intervals
    upstream,     \* the ranked war the API currently reports (war_id 0: none)
    mem,          \* WarMonitor.current_war_id, .war_message_id, .last_update
    stateFile,    \* data/war_state.json
    wpc,          \* where WarMonitor._monitor_loop is suspended
    warData,      \* the WarData the running cycle fetched
    msgs,         \* the war channel: message id -> the messages still referred to
    cyc,          \* what the cycle in progress (or the last one) did
    lastCrash,    \* where the latest crash hit the monitor
    upChanged,    \* the upstream war id changed since the latest crash
    posts         \* messages sent since the latest restart for the war of lastCrash

warVars == <<wNow, upstream, mem, stateFile, wpc, warData, msgs, cyc,
             lastCrash, upChanged, posts>>

VARIABLES
    bUp,          \* bounty monitor: member -> the dedup keys of the postings listed on it
    bKnown,       \* BountyMonitor.known_bounty_keys, the keys that occur upstream
    bFiller,      \* how many other keys known_bounty_keys holds
    bStats,       \* .total_bounties_found, .total_checks_performed
    bFile,        \* data/bounty_cache.json
    bpc,          \* where BountyMonitor._monitor_loop is suspended
    bIdx,         \* check_bounties: position in members.items()
    bNew,         \* check_bounties: the keys of new_bounties
    bPub,         \* the keys of the postings notified in the channel so far
    bBeats,       \* "no new bounties" messages sent to the channel, up to 2
    bTaint,       \* a fetch of the running pass failed, or the payload changed in it
    bStreak       \* consecutive clean passes over an unchanged payload, up to 2

bountyVars == <<bUp, bKnown, bFiller, bStats, bFile, bpc, bIdx, bNew, bPub, bBeats,
                bTaint, bStreak>>

VARIABLES
    bPass,        \* bounty monitor: what the latest call of check_bounties did
    bQuiet,       \* loop cycles in a row that found nothing and sent no heartbeat
    bBeatRun      \* loop cycles in a row that found nothing and sent one each, up to 2

trackVars == <<bPass, bQuiet, bBeatRun>>

VARIABLES
    cRun,         \* bounty monitor: the check_bounties the bounties command runs on it
    kRet,         \* per dedup key: how many calls of check_bounties returned it, up to 2
    kTrim         \* _clean_old_cache_entries has dropped keys

dualVars == <<cRun, kRet, kTrim>>

VARIABLES
    rwStart,      \* classification: ranked_war["start"] as the API gives it
    rwEnd,        \* ranked_war["end"] as the API gives it: absent, not a number, or a number
    rwNow,        \* datetime.now(timezone.utc).timestamp()
    rwStatus,     \* the status get_war_data assigned at its latest call
    rwAt,         \* the clock reading of that call
    rwPrev        \* the status assigned by the call before it

classVars == <<rwStart, rwEnd, rwNow, rwStatus, rwAt, rwPrev>>

VARIABLES
    barCurrent,   \* progress bar: the score create_progress_bar is called with
    barTarget,    \* its target
    barLength,    \* its length
    barOut        \* the bar it returned for them

barVars == <<barCurrent, barTarget, barLength, barOut>>

VARIABLES
    ukA,          \* dedup key: a posting (BountyInfo)
    ukB,          \* another posting
    ukKeyA,       \* ukA.unique_key
    ukKeyB        \* ukB.unique_key

keyVars == <<ukA, ukB, ukKeyA, ukKeyB>>

VARIABLES
    lMod,         \* monitor lifecycle: the module, "war" or "bounty"
    gMon,         \* its global war_monitor / bounty_monitor: 0 for None, or an instance
    mon,          \* per monitor instance: is_monitoring, monitor_task, the loop's position
    lFile,        \* the module's state/cache file: the record last written
    startc,       \* per call of the module's start(): where it is
    stopc,        \* the call of stop(): where it is and what it saw
    cmd           \* the manual command (war_status / bounties): where it is

lifeVars == <<lMod, gMon, mon, lFile, startc, stopc, cmd>>

VARIABLES
    evPhase,      \* event loop: per monitor task, what it is doing or waiting for
    evBlocked     \* the monitor whose synchronous call occupies the loop's thread

evVars == <<evPhase, evBlocked>>

VARIABLES
    slMod,        \* inter-cycle sleep: the module whose loop runs, "war" or "bounty"
    slInterval,   \* its check_interval
    slOut,        \* how the loop's latest iteration went
    slSlept,      \* the seconds it slept after that iteration
    slGood,       \* the seconds it slept after its latest successful iteration, 0 if none
    slCycles      \* iterations so far

sleepVars == <<slMod, slInterval, slOut, slSlept, slGood, slCycles>>

VARIABLES
    trStatus,     \* time remaining: war_data.status
    trStart,      \* war_data.start_timestamp, in seconds
    trEnd,        \* war_data.end_timestamp, in seconds, 0 when unknown
    trNow,        \* datetime.now(), in half seconds
    trOut         \* what calculate_time_remaining returned for them

timeVars == <<trStatus, trStart, trEnd, trNow, trOut>>

vars == <<clientVars, warVars, bountyVars, trackVars, dualVars, classVars, barVars, keyVars, lifeVars, evVars, sleepVars, timeVars>>

notClient == <<warVars, bountyVars, trackVars, dualVars, classVars, barVars, keyVars, lifeVars, evVars, sleepVars, timeVars>>
notWar == <<clientVars, bountyVars, trackVars, dualVars, classVars, barVars, keyVars, lifeVars, evVars, sleepVars, timeVars>>
besideBounty == <<clientVars, warVars, classVars, barVars, keyVars, lifeVars, evVars, sleepVars, timeVars>>
notBounty == <<besideBounty, trackVars, dualVars>>
notClass == <<clientVars, warVars, bountyVars, trackVars, dualVars, barVars, keyVars, lifeVars, evVars, sleepVars, timeVars>>
notBar == <<clientVars, warVars, bountyVars, trackVars, dualVars, classVars, keyVars, lifeVars, evVars, sleepVars, timeVars>>
notKey == <<clientVars, warVars, bountyVars, trackVars, dualVars, classVars, barVars, lifeVars, evVars, sleepVars, timeVars>>
notLife == <<clientVars, warVars, bountyVars, trackVars, dualVars, classVars, barVars, keyVars, evVars, sleepVars, timeVars>>
notEv == <<clientVars, warVars, bountyVars, trackVars, dualVars, classVars, barVars, keyVars, lifeVars, sleepVars, timeVars>>
notSleep == <<clientVars, warVars, bountyVars, trackVars, dualVars, classVars, barVars, keyVars, lifeVars, evVars, timeVars>>
notTime == <<clientVars, warVars, bountyVars, trackVars, dualVars, classVars, barVars, keyVars, lifeVars, evVars, sleepVars>>
----------------------------------------------------------------------------
(* TornAPIClient *)

Tasks == {"loop", "cmd"}
Urls == {"wars", "basic"}
ClientKinds == {"war", "bounty"}

\* self.rate_limit_delay = 1.1 seconds, in tenths of a second
RateLimitDelay == 11

\* max_retries = 3 / retries: int = 3
MaxRetries == 3

MoreAttemptsAlways(attempt) == TRUE

OnOutcomeNext(kind, o, attempt) == [act |-> "next", result |-> "none", d |-> 0]

\* `for attempt in range(max_retries)`: whether an iteration follows this one
MoreAttempts(attempt) == attempt + 1 < MaxRetries

\* statuses and failures one request can end in
ListedServerErrors == {"502", "503", "504"}
Outcomes == {"200", "403", "404", "429", "500", "503", "400",
             "ClientError", "TimeoutError"}

Min(a, b) == IF a < b THEN a ELSE b

SpacingWaitNone(tsl) == 0

\* the rate-limiting sleep: rate_limit_delay - time_since_last, when positive
SpacingWait(tsl) == IF tsl < RateLimitDelay THEN RateLimitDelay - tsl ELSE 0

\* asyncio.sleep(2 ** attempt), in tenths of a second
BackoffTicks(attempt) == 10 * (2 ^ attempt)

CacheHitNever(kind, fresh) == FALSE

\* the cache lookup of the war client, `cache_key in self.cache and now <
\* self.cache_ttl.get(cache_key, 0)` with the now read at entry, before the
\* spacing sleep: fresh tells whether the entry's TTL had not run out at entry
\* (or the entry was stored during the sleep); the bounty client has no cache
CacheHit(kind, fresh) == kind = "war" /\ fresh

\* self.cache[cache_key] = data; self.cache_ttl[cache_key] = now + 60, as seen by
\* the calls for the same url that are in their spacing sleep
Stored(ts, kind, o, t, u) ==
    IF kind = "war" /\ o = "200"
    THEN [x \in Tasks |->
            IF x # t /\ ts[x].pc = "spacing" /\ ts[x].url = u
            THEN [ts[x] EXCEPT !.fresh0 = TRUE]
            ELSE ts[x]]
    ELSE ts

\* What one iteration of the retry loop does with the outcome of its request:
\*   "return" a result, "raise" an error out of _make_request, "sleep" d ticks and
\*   continue, or "next": fall to the end of the loop body without sleeping.
OnOutcome(kind, o, attempt) ==
    CASE o = "200" -> [act |-> "return", result |-> "payload", d |-> 0]
      [] o = "429" -> [act |-> "sleep", result |-> "none", d |-> BackoffTicks(attempt)]
      [] o \in ListedServerErrors ->
            IF attempt < MaxRetries - 1
            THEN [act |-> "sleep", result |-> "none", d |-> BackoffTicks(attempt)]
            ELSE [act |-> "next", result |-> "none", d |-> 0]
      [] o = "403" -> [act |-> "raise", result |-> "APIError", d |-> 0]
      [] o = "404" -> [act |-> "return", result |-> "notfound", d |-> 0]
      [] o = "ClientError" ->
            IF attempt < MaxRetries - 1
            THEN [act |-> "sleep", result |-> "none", d |-> BackoffTicks(attempt)]
            ELSE [act |-> "next", result |-> "none", d |-> 0]
      [] o = "TimeoutError" -> [act |-> "raise", result |-> "TimeoutError", d |-> 0]
      [] OTHER ->
            IF kind = "bounty" /\ attempt < MaxRetries - 1
            THEN [act |-> "sleep", result |-> "none", d |-> BackoffTicks(attempt)]
            ELSE [act |-> "next", result |-> "none", d |-> 0]

\* last: the outcome of the latest request of the call, "none" before any;
\* fresh0: what the cache lookup of the call has to go by (see CacheHit);
\* slept: the ticks slept by the iteration before the one that is running
IdleTask == [pc |-> "idle", url |-> "wars", tsl |-> 0, rem |-> 0, attempt |-> 0,
             reqs |-> 0, result |-> "none", last |-> "none", fresh0 |-> FALSE,
             slept |-> 0]

ClientInitWith(cs, kinds) ==
    /\ callers = cs
    /\ clientKind \in kinds
    /\ sinceLast = RateLimitDelay
    /\ cacheFresh = [u \in Urls |-> FALSE]
    /\ tasks = [t \in Tasks |-> IdleTask]
    /\ lastGap = RateLimitDelay
    /\ lastSender = "none"

\* self.last_request = loop.time(); session.get(...): attempt a of task t goes out
SendRequest(t, rec, a) ==
    /\ tasks' = [tasks EXCEPT ![t] = [rec EXCEPT !.pc = "inflight", !.attempt = a,
                                                 !.reqs = rec.reqs + 1, !.rem = 0,
                                                 !.tsl = IF a = 0 THEN @ ELSE 0]]
    /\ lastGap' = sinceLast
    /\ lastSender' = t
    /\ sinceLast' = 0

\* the request last sent is no longer in flight
Landed(t) ==
    IF lastSender = t
    THEN lastGap' = RateLimitDelay /\ lastSender' = "none"
    ELSE UNCHANGED <<lastGap, lastSender>>

\* _make_request returns or raises
Finish(t, rec, res) ==
    /\ tasks' = Stored([tasks EXCEPT ![t] = [IdleTask EXCEPT !.result = res,
                                                             !.last = rec.last,
                                                             !.fresh0 = rec.fresh0]],
                       clientKind, rec.last, t, rec.url)
    /\ Landed(t)
    /\ UNCHANGED sinceLast

\* after the spacing sleep (or at once when none was needed): cache lookup, then
\* the first iteration of the retry loop
EnterLoop(t, rec) ==
    IF CacheHit(clientKind, rec.fresh0)
    THEN Finish(t, rec, "payload")
    ELSE SendRequest(t, rec, 0)

\* the next iteration of `for attempt in range(max_retries)`, or the raise after it
NextAttempt(t, rec) ==
    IF MoreAttempts(rec.attempt)
    THEN SendRequest(t, rec, rec.attempt + 1)
    ELSE Finish(t, rec, "APIError")

\* a task calls _make_request(url)
Call(t, u) ==
    /\ tasks[t].pc = "idle"
    /\ t \in callers
    /\ LET rec == [IdleTask EXCEPT !.url = u, !.tsl = sinceLast,
                                   !.fresh0 = (clientKind = "war" /\ cacheFresh[u])]
       IN IF SpacingWait(sinceLast) > 0
          THEN /\ tasks' = [tasks EXCEPT ![t] =
                               [rec EXCEPT !.pc = "spacing", !.rem = SpacingWait(sinceLast)]]
               /\ UNCHANGED <<sinceLast, lastGap, lastSender>>
          ELSE EnterLoop(t, rec)
    /\ UNCHANGED <<clientKind, cacheFresh, callers>>
    /\ UNCHANGED notClient

\* the spacing sleep is over
Wake(t) ==
    /\ tasks[t].pc = "spacing"
    /\ tasks[t].rem = 0
    /\ EnterLoop(t, tasks[t])
    /\ UNCHANGED <<clientKind, cacheFresh, callers>>
    /\ UNCHANGED notClient

\* the request of task t ends with outcome o
Respond(t, o) ==
    /\ tasks[t].pc = "inflight"
    /\ LET rec == [tasks[t] EXCEPT !.last = o]
           r == OnOutcome(clientKind, o, rec.attempt)
       IN /\ CASE r.act \in {"return", "raise"} -> Finish(t, rec, r.result)
                [] r.act = "sleep" ->
                      /\ tasks' = [tasks EXCEPT ![t] = [rec EXCEPT !.pc = "backoff", !.rem = r.d,
                                                                   !.tsl = 0, !.slept = r.d]]
                      /\ Landed(t)
                      /\ UNCHANGED sinceLast
                [] OTHER -> NextAttempt(t, [rec EXCEPT !.slept = 0])
          /\ cacheFresh' = IF clientKind = "war" /\ o = "200"
                           THEN [cacheFresh EXCEPT ![rec.url] = TRUE]
                           ELSE cacheFresh
    /\ UNCHANGED <<clientKind, callers>>
    /\ UNCHANGED notClient

\* the backoff sleep is over: `continue`
BackoffWake(t) ==
    /\ tasks[t].pc = "backoff"
    /\ tasks[t].rem = 0
    /\ NextAttempt(t, tasks[t])
    /\ UNCHANGED <<clientKind, cacheFresh, callers>>
    /\ UNCHANGED notClient

\* a cache entry's TTL runs out
Expire(u) ==
    /\ cacheFresh[u]
    /\ cacheFresh' = [cacheFresh EXCEPT ![u] = FALSE]
    /\ UNCHANGED <<clientKind, sinceLast, tasks, callers, lastGap, lastSender>>
    /\ UNCHANGED notClient

\* a tenth of a second passes
Tick ==
    /\ sinceLast' = Min(sinceLast + 1, RateLimitDelay)
    /\ tasks' = [t \in Tasks |->
                   [tasks[t] EXCEPT !.rem = IF @ > 0 THEN @ - 1 ELSE 0]]
    /\ UNCHANGED <<clientKind, cacheFresh, callers, lastGap, lastSender>>
    /\ UNCHANGED notClient

ClientNext ==
    \/ \E t \in Tasks, u \in Urls : Call(t, u)
    \/ \E t \in Tasks : Wake(t)
    \/ \E t \in Tasks, o \in Outcomes : Respond(t, o)
    \/ \E t \in Tasks : BackoffWake(t)
    \/ \E u \in Urls : Expire(u)
    \/ Tick

ClientInit == ClientInitWith({"loop"}, ClientKinds)
SharedInit == ClientInitWith(Tasks, {"war"})
\* outcomes that end a call at its first request, so that no retry is involved
FirstTryOutcomes == {"200", "403", "404", "TimeoutError"}
\* _monitor_loop and get_current_status both call get_war_data
SharedUrls == {"wars"}
SharedNext ==
    \/ \E t \in Tasks, u \in SharedUrls : Call(t, u)
    \/ \E t \in Tasks : Wake(t)
    \/ \E t \in Tasks, o \in FirstTryOutcomes : Respond(t, o)
    \/ \E u \in Urls : Expire(u)
    \/ Tick


----------------------------------------------------------------------------
(* WarMonitor *)

\* Python's None, for an identifier or a timestamp
None == -1

MaxWarId == 1
MaxNow == 3

WarIds == 1..MaxWarId

\* what /faction/wars can report: no ranked war, or one with its start and end
\* (end 0: null or non-numeric, as get_war_data normalises it)
UpstreamStates ==
    {[war_id |-> 0, start |-> 0, end |-> 0]}
    \cup {[war_id |-> w, start |-> 1, end |-> 2] : w \in WarIds}
    \cup {[war_id |-> w, start |-> 2, end |-> 0] : w \in WarIds}

ClassifyStartExclusive(start, end, now) ==
    IF start >= now THEN "SCHEDULED"
    ELSE IF end > 0 /\ end <= now THEN "ENDED" ELSE "ACTIVE"

ClassifyBackwards(start, end, now) ==
    IF start > now THEN "ENDED" ELSE "SCHEDULED"

\* get_war_data: status from start/end timestamps and the clock
Classify(start, end, now) ==
    IF start > 0
    THEN IF start > now THEN "SCHEDULED"
         ELSE IF end > 0 /\ end <= now THEN "ENDED"
         ELSE "ACTIVE"
    ELSE "NOT_FOUND"

\* how the _make_request of get_war_data for /faction/wars ends: a 200 with the
\* wars ("payload") or with an error envelope {"error": ...} ("envelope"), a 404
\* ("notfound"), a 403 ("auth"), the retries exhausted ("failed"), or
\* asyncio.TimeoutError ("timeout")
FetchCases == {"payload", "envelope", "notfound", "auth", "failed", "timeout"}

\* how the get_faction_details calls for the factions of the war end: two
\* FactionInfo ("both"), fewer because a call returned None or the list is
\* short ("short"), or a call raised asyncio.TimeoutError ("timeout")
DetailCases == {"both", "short", "timeout"}

\* get_war_data returned None / raised; got tells a WarData ("data") from these
NoWarData == [got |-> "none", war_id |-> 0, status |-> "NOT_FOUND", enough |-> FALSE]
RaisedWarData == [got |-> "raise", war_id |-> 0, status |-> "NOT_FOUND", enough |-> FALSE]

NoRankedWar == [war_id |-> 0, start |-> 0, end |-> 0]

\* get_war_data on a 200 body: up is what its "wars" hold, d how the detail
\* fetches end; enough: len(factions) >= 2
GetWarData(up, d, now) ==
    IF up.war_id = 0
    THEN [got |-> "data", war_id |-> 0, status |-> "NOT_FOUND", enough |-> FALSE]
    ELSE IF d = "timeout"
    THEN RaisedWarData
    ELSE [got |-> "data", war_id |-> up.war_id,
          status |-> Classify(up.start, up.end, now), enough |-> (d = "both")]

FetchWarDataClassifying404(f, up, d, now) ==
    CASE f = "payload" -> GetWarData(up, d, now)
      [] f \in {"envelope", "notfound"} -> GetWarData(NoRankedWar, d, now)
      [] f = "timeout" -> RaisedWarData
      [] OTHER -> NoWarData

\* get_war_data for each way its _make_request ends: an error envelope is a
\* dict without "wars", so no ranked war is found in it; None (404) and APIError
\* (403, retries exhausted) both give None; asyncio.TimeoutError is not caught
FetchWarData(f, up, d, now) ==
    CASE f = "payload" -> GetWarData(up, d, now)
      [] f = "envelope" -> GetWarData(NoRankedWar, d, now)
      [] f = "timeout" -> RaisedWarData
      [] OTHER -> NoWarData

\* create_war_embed: what the embed shows for war_data
EmbedFor(wd) ==
    IF wd.status = "NOT_FOUND" THEN "NOT_FOUND"
    ELSE IF ~wd.enough THEN "INSUFFICIENT"
    ELSE wd.status

\* _send_new_war_message: the content line above the embed
BannerFor(status) ==
    CASE status = "SCHEDULED" -> "NEW RANKED WAR SCHEDULED!"
      [] status = "ACTIVE" -> "RANKED WAR STARTED!"
      [] OTHER -> "none"

IsNewWarAlways(fetched, current) == TRUE

\* _monitor_loop: war_data.war_id != self.current_war_id
IsNewWar(fetched, current) == fetched # current

UpdateReturnsFalse(o) == FALSE

\* the bool _update_existing_message returns for the outcome of fetch_message/edit
UpdateReturns(o) == o = "ok"

SentMessageIdKept(old, n) == old

SentMessageIdDropped(old, n) == None

\* self.war_message_id = msg.id, msg being the n-th message of the channel
SentMessageId(old, n) == n

MessageIdOnNewWarKept(old) == old

\* self.war_message_id = None of the new-war branch
MessageIdOnNewWar(old) == None

NoState == [current_war_id |-> None, war_message_id |-> None, last_update |-> None]
NoFile == [valid |-> FALSE, current_war_id |-> None, war_message_id |-> None,
           last_update |-> None]
NoCycle == [fetch |-> "none", detail |-> "none", branch |-> "none", edit |-> "none",
            send |-> "none", banner |-> "none", msg0 |-> None, end |-> "none"]
NoPosts == [new |-> 0, gone |-> 0, failed |-> 0]

\* how a notification came to be posted: by the new-identifier branch, or by the
\* unchanged-identifier branch with no message to edit (none associated, or
\* NotFound) or after an edit that failed otherwise
PostedBy(c) ==
    IF c.branch = "new" THEN "new" ELSE IF c.edit = "error" THEN "failed" ELSE "gone"

\* _load_state: a missing or unreadable file leaves the constructor's values
LoadState(f) ==
    IF f.valid
    THEN [current_war_id |-> f.current_war_id, war_message_id |-> f.war_message_id,
          last_update |-> f.last_update]
    ELSE NoState

\* _save_state: the file as json.dump writes it
SavedState(m) ==
    [valid |-> TRUE, current_war_id |-> m.current_war_id,
     war_message_id |-> m.war_message_id, last_update |-> m.last_update]

\* channel.send(content=banner, embed=...): the channel gains a message showing
\* war_data; ids grow with the time of posting
Posted(ms, id, wd) ==
    [i \in DOMAIN ms \cup {id} |->
        IF i = id
        THEN [war |-> wd.war_id, banner |-> BannerFor(wd.status), shown |-> EmbedFor(wd),
              alive |-> TRUE]
        ELSE ms[i]]

\* msg.edit(embed=...): the embed of message id now shows war_data
Edited(ms, id, wd) == [ms EXCEPT ![id].shown = EmbedFor(wd)]

\* the messages of the channel that memory m or file f still refers to: no
\* other message is ever looked up again
Referenced(ms, m, f) ==
    [i \in DOMAIN ms \cap {m.war_message_id, f.war_message_id} |-> ms[i]]

WarInit ==
    /\ wNow = 0
    /\ upstream = [war_id |-> 0, start |-> 0, end |-> 0]
    /\ mem = NoState
    /\ stateFile = NoFile
    /\ wpc = "idle"
    /\ warData = NoWarData
    /\ msgs = Referenced(<<>>, NoState, NoFile)
    /\ cyc = NoCycle
    /\ lastCrash = [at |-> "none", war |-> None]
    /\ upChanged = FALSE
    /\ posts = NoPosts

\* One pass of the loop body up to its first Discord call, at the clock reading
\* now: get_war_data, the channel lookup and the new-war test.
\* f, d: how the fetches of get_war_data end; chan: get_channel found the channel.
WarPollAt(f, d, chan, now) ==
    /\ wpc = "idle"
    /\ (f # "payload" \/ upstream.war_id = 0) => d = "both"
    /\ wNow' = now
    /\ LET wd == FetchWarData(f, upstream, d, wNow')
           seen == [NoCycle EXCEPT !.fetch = f,
                                   !.detail = IF f = "payload" /\ upstream.war_id # 0
                                              THEN d ELSE "none"]
       IN /\ warData' = wd
          /\ wd.got # "data" => chan
          /\ IF wd.got = "raise"
             THEN /\ cyc' = [seen EXCEPT !.msg0 = mem.war_message_id, !.end = "aborted"]
                  /\ UNCHANGED <<mem, wpc>>
             ELSE IF wd.got = "none" \/ ~chan
             THEN /\ cyc' = [seen EXCEPT !.msg0 = mem.war_message_id, !.end = "skipped"]
                  /\ UNCHANGED <<mem, wpc>>
             ELSE IF IsNewWar(wd.war_id, mem.current_war_id)
             THEN /\ mem' = [mem EXCEPT !.current_war_id = wd.war_id,
                                        !.war_message_id = MessageIdOnNewWar(@)]
                  /\ wpc' = "send"
                  /\ cyc' = [seen EXCEPT !.branch = "new",
                                         !.msg0 = mem.war_message_id,
                                         !.end = "running"]
             ELSE IF mem.war_message_id = None
             THEN /\ wpc' = "send"
                  /\ cyc' = [seen EXCEPT !.branch = "same", !.edit = "nomsg",
                                         !.end = "running"]
                  /\ UNCHANGED mem
             ELSE /\ wpc' = "update"
                  /\ cyc' = [seen EXCEPT !.branch = "same",
                                         !.msg0 = mem.war_message_id,
                                         !.end = "running"]
                  /\ UNCHANGED mem
    /\ msgs' = Referenced(msgs, mem', stateFile)
    /\ UNCHANGED <<upstream, stateFile, lastCrash, upChanged, posts>>
    /\ UNCHANGED notWar

\* the pass at the next reading of the clock
WarPoll(f, d, chan) ==
    /\ wNow < MaxNow
    /\ WarPollAt(f, d, chan, wNow + 1)

\* a pass later than every reading the clock tells apart: it is read as MaxNow
WarPollLate(f, d, chan) ==
    /\ wNow = MaxNow
    /\ WarPollAt(f, d, chan, MaxNow)

\* _update_existing_message past its first check: fetch_message and edit end in
\*   "ok", "notfound" (discord.NotFound), "error" (another DiscordException) or
\*   "exception" (anything else, caught by the loop's except)
WarUpdate(o) ==
    /\ wpc = "update"
    /\ mem.war_message_id \in DOMAIN msgs
    /\ o = "ok" => msgs[mem.war_message_id].alive
    /\ o = "notfound" => ~msgs[mem.war_message_id].alive
    /\ IF o = "exception"
       THEN /\ wpc' = "idle"
            /\ cyc' = [cyc EXCEPT !.edit = o, !.end = "aborted"]
            /\ UNCHANGED mem
       ELSE /\ cyc' = [cyc EXCEPT !.edit = o]
            /\ mem' = IF o = "notfound" THEN [mem EXCEPT !.war_message_id = None] ELSE mem
            /\ wpc' = IF UpdateReturns(o) THEN "save" ELSE "send"
    /\ msgs' = Referenced(IF o = "ok" THEN Edited(msgs, mem.war_message_id, warData)
                           ELSE msgs, mem', stateFile)
    /\ UNCHANGED <<wNow, upstream, stateFile, warData, lastCrash, upChanged, posts>>
    /\ UNCHANGED notWar

\* _send_new_war_message: channel.send ends in "ok", "error" (DiscordException,
\* logged) or "exception" (anything else, caught by the loop's except)
WarSend(o) ==
    /\ wpc = "send"
    /\ CASE o = "ok" ->
              /\ mem' = [mem EXCEPT !.war_message_id = SentMessageId(@, wNow)]
              /\ msgs' = Referenced(Posted(msgs, wNow, warData), mem', stateFile)
              /\ wpc' = "save"
              /\ cyc' = [cyc EXCEPT !.send = "ok", !.banner = BannerFor(warData.status)]
              /\ posts' = IF warData.war_id = lastCrash.war
                          THEN [posts EXCEPT ![PostedBy(cyc)] = Min(@ + 1, 2)]
                          ELSE posts
         [] o = "error" ->
              /\ wpc' = "save"
              /\ cyc' = [cyc EXCEPT !.send = "error"]
              /\ UNCHANGED <<msgs, mem, posts>>
         [] OTHER ->
              /\ wpc' = "idle"
              /\ cyc' = [cyc EXCEPT !.send = "exception", !.end = "aborted"]
              /\ UNCHANGED <<msgs, mem, posts>>
    /\ UNCHANGED <<wNow, upstream, stateFile, warData, lastCrash, upChanged>>
    /\ UNCHANGED notWar

\* self.last_update = now; self._save_state(), whose write ends in "ok", leaves
\* the file as it was ("kept": open failed) or truncated ("torn"); then the sleep
WarSave(o) ==
    /\ wpc = "save"
    /\ mem' = [mem EXCEPT !.last_update = wNow]
    /\ stateFile' = CASE o = "ok" -> SavedState(mem')
                      [] o = "kept" -> stateFile
                      [] OTHER -> NoFile
    /\ cyc' = [cyc EXCEPT !.end = IF o = "ok" THEN "saved" ELSE "savefail"]
    /\ wpc' = "idle"
    /\ msgs' = Referenced(msgs, mem', stateFile')
    /\ UNCHANGED <<wNow, upstream, warData, lastCrash, upChanged, posts>>
    /\ UNCHANGED notWar

\* the process dies wherever the loop is
WarCrash ==
    /\ wpc # "down"
    /\ wpc' = "down"
    /\ lastCrash' = [at |-> IF wpc = "save" /\ cyc.branch = "new" /\ cyc.send = "ok"
                            THEN "published" ELSE "other",
                     war |-> mem.current_war_id]
    /\ upChanged' = FALSE
    /\ posts' = NoPosts
    /\ mem' = NoState
    /\ msgs' = Referenced(msgs, mem', stateFile)
    /\ UNCHANGED <<wNow, upstream, stateFile, warData, cyc>>
    /\ UNCHANGED notWar

\* the process starts again: WarMonitor.__init__ and start_monitoring
WarRestart ==
    /\ wpc = "down"
    /\ mem' = LoadState(stateFile)
    /\ wpc' = "idle"
    /\ cyc' = NoCycle
    /\ warData' = NoWarData
    /\ UNCHANGED <<wNow, upstream, stateFile, msgs, lastCrash, upChanged, posts>>
    /\ UNCHANGED notWar

\* stop_monitoring: the task is cancelled at the await it is in and
\* _save_state writes what memory holds (or fails to); the monitor object stays
\* behind, not monitoring, until start() makes a new one
WarStop(o) ==
    /\ wpc # "down"
    /\ wpc' = "down"
    /\ stateFile' = CASE o = "ok" -> SavedState(mem)
                      [] o = "kept" -> stateFile
                      [] OTHER -> NoFile
    /\ lastCrash' = [at |-> "other", war |-> mem.current_war_id]
    /\ upChanged' = FALSE
    /\ posts' = NoPosts
    /\ msgs' = Referenced(msgs, mem, stateFile')
    /\ UNCHANGED <<wNow, upstream, mem, warData, cyc>>
    /\ UNCHANGED notWar

\* somebody deletes a message of the channel that the monitor or its state file
\* still refers to (the deletion of any other message is never observed)
EnvDelete(i) ==
    /\ i \in DOMAIN msgs
    /\ i \in {mem.war_message_id, stateFile.war_message_id}
    /\ msgs[i].alive
    /\ msgs' = [msgs EXCEPT ![i].alive = FALSE]
    /\ UNCHANGED <<wNow, upstream, mem, stateFile, wpc, warData, cyc, lastCrash, upChanged, posts>>
    /\ UNCHANGED notWar

\* the API starts reporting another war, or none
EnvUpstream(u) ==
    /\ u \in UpstreamStates
    /\ u.war_id # upstream.war_id
    /\ upstream' = u
    /\ upChanged' = TRUE
    /\ UNCHANGED <<wNow, mem, stateFile, wpc, warData, msgs, cyc, lastCrash,
                   posts>>
    /\ UNCHANGED notWar

\* the monitor with fetches that succeed or fail after their retries, a channel
\* whose messages can be deleted, and a process that can die and start again
PlainFetchCases == {"payload", "failed"}
WarNext ==
    \/ \E f \in PlainFetchCases, c \in BOOLEAN : WarPoll(f, "both", c)
    \/ \E o \in {"ok", "notfound", "error", "exception"} : WarUpdate(o)
    \/ \E o \in {"ok", "error", "exception"} : WarSend(o)
    \/ \E o \in {"ok", "kept", "torn"} : WarSave(o)
    \/ WarCrash
    \/ WarRestart
    \/ \E i \in 1..MaxNow : EnvDelete(i)
    \/ \E u \in UpstreamStates : EnvUpstream(u)

\* the monitor of one process with every way its fetches can end
WarFetchNext ==
    \/ \E f \in FetchCases, d \in DetailCases, c \in BOOLEAN : WarPoll(f, d, c)
    \/ \E o \in {"ok", "notfound", "error", "exception"} : WarUpdate(o)
    \/ \E o \in {"ok", "error", "exception"} : WarSend(o)
    \/ \E o \in {"ok", "kept", "torn"} : WarSave(o)
    \/ \E i \in 1..MaxNow : EnvDelete(i)
    \/ \E u \in UpstreamStates : EnvUpstream(u)

\* the monitor that is also stopped and started again by hand
WarStopNext ==
    \/ WarNext
    \/ \E o \in {"ok", "kept", "torn"} : WarStop(o)

\* the running monitor for as long as one likes, with a state file that can be
\* written
WarRetryNext ==
    \/ \E f \in PlainFetchCases, c \in BOOLEAN : WarPoll(f, "both", c)
    \/ \E f \in PlainFetchCases, c \in BOOLEAN : WarPollLate(f, "both", c)
    \/ \E o \in {"ok", "notfound", "error", "exception"} : WarUpdate(o)
    \/ \E o \in {"ok", "error", "exception"} : WarSend(o)
    \/ WarSave("ok")
    \/ \E i \in 1..MaxNow : EnvDelete(i)
    \/ \E u \in UpstreamStates : EnvUpstream(u)

\* the loop's task is resumed whenever its await has ended; fetches succeed and
\* the channel is found again and again, and so do sends
WarRetryFair ==
    /\ WF_vars(\E f \in PlainFetchCases, c \in BOOLEAN :
                   WarPoll(f, "both", c) \/ WarPollLate(f, "both", c))
    /\ WF_vars(\E o \in {"ok", "notfound", "error", "exception"} : WarUpdate(o))
    /\ WF_vars(\E o \in {"ok", "error", "exception"} : WarSend(o))
    /\ WF_vars(WarSave("ok"))
    /\ SF_vars(WarPoll("payload", "both", TRUE) \/ WarPollLate("payload", "both", TRUE))
    /\ SF_vars(WarSend("ok"))

----------------------------------------------------------------------------
(* BountyInfo.unique_key *)

MaxReasonLen == 3

\* characters of the reason and of the lister name; " " and "\t" are whitespace
ReasonChars == {"a", "A", " ", "\t"}
IsSpace(c) == c \in {" ", "\t"}

\* str.lower() on one character
LowerChar(c) == CASE c = "A" -> "a" [] c = "B" -> "b" [] OTHER -> c

\* str.lower()
Lower(s) == [i \in 1..Len(s) |-> LowerChar(s[i])]

\* str.strip(): whitespace is removed at both ends
RECURSIVE LStrip(_)
LStrip(s) == IF s # <<>> /\ IsSpace(Head(s)) THEN LStrip(Tail(s)) ELSE s
RECURSIVE RStrip(_)
RStrip(s) ==
    IF s # <<>> /\ IsSpace(s[Len(s)]) THEN RStrip(SubSeq(s, 1, Len(s) - 1)) ELSE s
Strip(s) == RStrip(LStrip(s))

\* str.split(): the maximal runs of characters that are not whitespace
RECURSIVE WordEnd(_, _)
WordEnd(s, i) == IF i <= Len(s) /\ ~IsSpace(s[i]) THEN WordEnd(s, i + 1) ELSE i
RECURSIVE Split(_)
Split(s) ==
    LET t == LStrip(s)
    IN IF t = <<>>
       THEN <<>>
       ELSE <<SubSeq(t, 1, WordEnd(t, 1) - 1)>> \o Split(SubSeq(t, WordEnd(t, 1), Len(t)))

\* " ".join(words)
RECURSIVE Join(_)
Join(ws) ==
    IF ws = <<>> THEN <<>>
    ELSE IF Len(ws) = 1 THEN ws[1]
    ELSE ws[1] \o <<" ">> \o Join(Tail(ws))

\* str(n) of a lister id
StrOfId(n) == <<ToString(n)>>

\* str(self.lister_id or self.lister_name or "unknown"): an id that is None or
\* 0 and a name that is None or empty are falsy
ListerSource(p) ==
    IF p.lister_id # 0 THEN StrOfId(p.lister_id)
    ELSE IF p.lister_name # <<>> THEN p.lister_name
    ELSE <<"unknown">>

\* the key without any normalisation of the reason
UniqueKeyRawReason(p) ==
    <<p.target_id, p.reward, p.quantity,
      IF p.is_anonymous THEN <<"anon">> ELSE Lower(Strip(ListerSource(p))),
      p.reason>>

\* unique_key: md5 of f"{target_id}|{reward}|{quantity}|{lister}|{reason_normalized}";
\* the key is kept as the tuple of the parts that are formatted and hashed, equal
\* tuples giving equal keys
unique_key(p) ==
    <<p.target_id, p.reward, p.quantity,
      IF p.is_anonymous THEN <<"anon">> ELSE Lower(Strip(ListerSource(p))),
      IF p.reason # <<>> THEN Lower(Join(Split(Strip(p.reason)))) ELSE <<>>>>

RECURSIVE StringsUpTo(_)
StringsUpTo(n) ==
    IF n = 0 THEN {<<>>}
    ELSE LET shorter == StringsUpTo(n - 1)
         IN shorter \cup {Append(s, c) : s \in shorter, c \in ReasonChars}

Reasons == StringsUpTo(MaxReasonLen)
ListerIds == {0, 7}
ListerNames == {<<>>, <<"B">>, <<" ", "b">>}
TargetIds == {1, 2}
Rewards == {100, 200}

\* the fields of a BountyInfo
Postings ==
    [target_id : TargetIds, target_name : {"x", "y"}, reward : Rewards, quantity : {1},
     lister_id : ListerIds, lister_name : ListerNames, is_anonymous : BOOLEAN,
     reason : Reasons, posted_time : {0, 1}]

\* the postings the first of the two is drawn from
FirstPostings ==
    [target_id : {1}, target_name : {"x"}, reward : {100}, quantity : {1},
     lister_id : ListerIds, lister_name : {<<"B">>}, is_anonymous : BOOLEAN,
     reason : {<<>>, <<"a", " ", "A">>}, posted_time : {0}]

\* the postings that differ from p in one field, a reason differing by its
\* last character
Variants(p) ==
    {[p EXCEPT !.target_id = v] : v \in TargetIds}
    \cup {[p EXCEPT !.target_name = v] : v \in {"x", "y"}}
    \cup {[p EXCEPT !.reward = v] : v \in Rewards}
    \cup {[p EXCEPT !.lister_id = v] : v \in ListerIds}
    \cup {[p EXCEPT !.lister_name = v] : v \in ListerNames}
    \cup {[p EXCEPT !.is_anonymous = v] : v \in BOOLEAN}
    \cup {[p EXCEPT !.posted_time = v] : v \in {0, 1}}
    \cup {[p EXCEPT !.reason = Append(p.reason, c)] :
              c \in IF Len(p.reason) < MaxReasonLen THEN ReasonChars ELSE {}}
    \cup {[p EXCEPT !.reason = SubSeq(p.reason, 1, Len(p.reason) - 1)] :
              c \in IF p.reason # <<>> THEN {0} ELSE {}}

NoKey == <<>>

KeyInitWith(firsts) ==
    /\ ukA \in firsts
    /\ ukB = ukA
    /\ ukKeyA = NoKey
    /\ ukKeyB = NoKey

KeyInit == KeyInitWith(FirstPostings)
KeyParked ==
    KeyInitWith({[target_id |-> 1, target_name |-> "x", reward |-> 100, quantity |-> 1,
                  lister_id |-> 0, lister_name |-> <<"B">>, is_anonymous |-> FALSE,
                  reason |-> <<>>, posted_time |-> 0]})

\* check_bounties takes the key of a posting it fetched
KeyFirst ==
    /\ ukKeyA = NoKey
    /\ ukKeyA' = unique_key(ukA)
    /\ ukKeyB' = unique_key(ukB)
    /\ UNCHANGED <<ukA, ukB>>
    /\ UNCHANGED notKey

\* and the key of another posting q that the API lists
KeyOther(q) ==
    /\ ukKeyA # NoKey
    /\ q # ukB
    /\ ukB' = q
    /\ ukKeyB' = unique_key(q)
    /\ UNCHANGED <<ukA, ukKeyA>>
    /\ UNCHANGED notKey

KeyNext ==
    \/ KeyFirst
    \/ \E q \in Variants(ukB) : KeyOther(q)
----------------------------------------------------------------------------
(* BountyMonitor *)

\* _clean_old_cache_entries: the size above which the set is trimmed, and the
\* number of entries kept
CacheLimit == 10000
CacheKeep == 5000

\* "no bounties" is shown when total_checks_performed % 12 == 1
HeartbeatEvery == 12

MaxChecks == 3

\* the faction's members in the order get_faction_members yields them, and the
\* dedup keys (BountyInfo.unique_key) of the postings that can be listed on them
MemberOrder == <<"m1", "m2">>
Members == {MemberOrder[i] : i \in DOMAIN MemberOrder}

\* the posting that can be listed on a member: get_user_bounties takes
\* target_id from the payload
MemberPosting(m) ==
    [target_id |-> IF m = "m1" THEN 1 ELSE 2, target_name |-> m, reward |-> 100,
     quantity |-> 1, lister_id |-> 7, lister_name |-> <<"B">>, is_anonymous |-> FALSE,
     reason |-> <<>>, posted_time |-> 0]

\* unique_key hashes target_id with the rest: a key belongs to one member
MemberKey == [m \in Members |-> unique_key(MemberPosting(m))]
KeysOf(m) == {MemberKey[m]}
Keys == UNION {KeysOf(m) : m \in Members}

MaxTest == 2

\* the i-th posting check_bounties fabricates in test mode at clock reading now
TestPosting(i, now) ==
    [target_id |-> 999999 + i, target_name |-> "TestPlayer" \o ToString(i),
     reward |-> 1000 * i, quantity |-> 1, lister_id |-> 0,
     lister_name |-> <<"T", "e", "s", "t", "e", "r">>, is_anonymous |-> FALSE,
     reason |-> <<"T", "e", "s", "t", " ", "b", "o", "u", "n", "t", "y", " ", "#",
                  ToString(i)>>,
     posted_time |-> now]

\* clock readings a test call can be made at
TestClock == {0, 1}

\* test_bounty.unique_key
TestKey == [i \in 1..MaxTest, now \in TestClock |-> unique_key(TestPosting(i, now))]

TestKeysOne(n, now) == {TestKey[1, now]}

\* the keys of the postings of `for i in range(1, test_count + 1)`
TestKeys(n, now) == {TestKey[i, now] : i \in 1..n}

\* every key known_bounty_keys can hold in the model
AllKeys == Keys \cup TestKeys(MaxTest, 0)

\* how a member's iteration of the loop in check_bounties can go: the postings
\* are fetched and keyed ("ok"), get_user_bounties returns [] after a failure
\* ("failed"), or unique_key raises on a posting of the payload ("malformed")
MemberOutcomes == {"ok", "failed", "malformed"}

\* the postings of the member that the loop body gets to key: all of them, none,
\* or the ones (part) that precede the posting unique_key raises on
Processed(listed, o, part) ==
    CASE o = "ok" -> listed
      [] o = "failed" -> {}
      [] OTHER -> part

\* sizes of known_bounty_keys a run can start with
FillerChoices == {0, CacheLimit - 1, CacheLimit}

\* len(self.known_bounty_keys)
KnownSize(known, filler) == Cardinality(known) + filler

NewKeysUntested(listed, known) == listed

\* `if bounty.unique_key not in self.known_bounty_keys`, over one member's list
NewKeys(listed, known) == listed \ known

TrimFiresAtLimit(known, filler) == KnownSize(known, filler) >= CacheLimit

\* _clean_old_cache_entries: whether the trim fires
TrimFires(known, filler) == KnownSize(known, filler) > CacheLimit

\* set(list(self.known_bounty_keys)[-5000:]): the iteration order of a set of
\* strings is arbitrary, so any CacheKeep entries can be the ones kept; s is
\* the part of them among the keys that occur upstream
TrimKeeps(known, filler, s) ==
    /\ s \subseteq known
    /\ Cardinality(s) <= CacheKeep
    /\ CacheKeep - Cardinality(s) <= filler

\* `if new_bounties or self.total_checks_performed % 12 == 1`
ShouldPublish(new, checks) == new # {} \/ checks % HeartbeatEvery = 1

\* _save_cache: the file as json.dump writes it
SavedCache(known, filler, stats) ==
    [known |-> known, filler |-> filler, found |-> stats.found, checks |-> stats.checks]

BountyInitWith(fillers) ==
    /\ bUp = [m \in Members |-> {}]
    /\ bKnown = {}
    /\ bFiller \in fillers
    /\ bStats = [found |-> 0, checks |-> 0]
    /\ bFile = SavedCache(bKnown, bFiller, bStats)
    /\ bpc = "idle"
    /\ bIdx = 0
    /\ bNew = {}
    /\ bPub = {}
    /\ bBeats = 0
    /\ bTaint = FALSE
    /\ bStreak = 0

\* what is recorded of the latest call of check_bounties: who called, test_count,
\* whether the members were enumerated, the known keys and the check counter at
\* its start, the members visited, the keys listed on the members whose
\* postings were all fetched and keyed, the keys returned and whether
\* _save_cache wrote the file
\* no check_bounties of the command is in progress; while one is: where it is,
\* its position in members.items() and the keys of its new_bounties
NoRun == [pc |-> "idle", idx |-> 0, new |-> {}]

NoPass == [by |-> "none", n |-> 0, ran |-> FALSE, known0 |-> {}, checks0 |-> 0,
           visited |-> <<>>, fetched |-> {}, ret |-> {}, wrote |-> FALSE]

TrackInit ==
    /\ bPass = NoPass
    /\ bQuiet = 0
    /\ bBeatRun = 0
    /\ cRun = NoRun
    /\ kRet = [k \in Keys |-> 0]
    /\ kTrim = FALSE

BountyInit == BountyInitWith(FillerChoices) /\ TrackInit
BountyParked == BountyInitWith({0}) /\ TrackInit

\* _monitor_loop calls check_bounties(); get_faction_members returns the members
\* (got) or nothing, and then check_bounties returns [] at once
CheckStart(got) ==
    /\ bpc = "idle"
    /\ bStats.checks < MaxChecks
    /\ bNew' = {}
    /\ IF got
       THEN bpc' = "members" /\ bIdx' = 1 /\ bTaint' = FALSE
       ELSE bpc' = "publish" /\ bIdx' = 0 /\ bTaint' = TRUE
    /\ UNCHANGED <<bUp, bKnown, bFiller, bStats, bFile, bPub, bBeats, bStreak>>
    /\ UNCHANGED besideBounty

\* one iteration of `for member_id, member in members.items()`:
\* get_user_bounties returns the member's postings (ok) or [] after a failure
CheckMember(o, part) ==
    /\ bpc = "members"
    /\ part \subseteq bUp[MemberOrder[bIdx]]
    /\ o # "malformed" => part = {}
    /\ LET m == MemberOrder[bIdx]
           new == NewKeys(Processed(bUp[m], o, part), bKnown)
       IN /\ bNew' = bNew \cup new
          /\ bKnown' = bKnown \cup new
    /\ bTaint' = (bTaint \/ o # "ok")
    /\ IF bIdx < Len(MemberOrder)
       THEN bIdx' = bIdx + 1 /\ bpc' = "members"
       ELSE bIdx' = 0 /\ bpc' = "finish"
    /\ UNCHANGED <<bUp, bFiller, bStats, bFile, bPub, bBeats, bStreak>>
    /\ UNCHANGED besideBounty

\* the end of check_bounties: statistics, _save_cache (written, or "kept" as it
\* was when the write fails), _clean_old_cache_entries keeping s
CheckFinish(o, s) ==
    /\ bpc = "finish"
    /\ bStats' = [found |-> bStats.found + Cardinality(bNew), checks |-> bStats.checks + 1]
    /\ bFile' = IF o = "ok" THEN SavedCache(bKnown, bFiller, bStats') ELSE bFile
    /\ IF TrimFires(bKnown, bFiller)
       THEN /\ TrimKeeps(bKnown, bFiller, s)
            /\ bKnown' = s
            /\ bFiller' = CacheKeep - Cardinality(s)
       ELSE /\ s = bKnown
            /\ UNCHANGED <<bKnown, bFiller>>
    /\ bStreak' = IF bTaint THEN 0 ELSE Min(bStreak + 1, 2)
    /\ bpc' = "publish"
    /\ UNCHANGED <<bUp, bIdx, bNew, bPub, bBeats, bTaint>>
    /\ UNCHANGED besideBounty

\* back in _monitor_loop: the embed is sent when there is something to show;
\* channel.send succeeds (ok) or raises into the loop's except
LoopPublish(ok) ==
    /\ bpc = "publish"
    /\ IF ShouldPublish(bNew, bStats.checks) /\ ok
       THEN /\ bPub' = bPub \cup bNew
            /\ bBeats' = IF bNew = {} THEN Min(bBeats + 1, 2) ELSE bBeats
       ELSE UNCHANGED <<bPub, bBeats>>
    /\ bpc' = "idle"
    /\ UNCHANGED <<bUp, bKnown, bFiller, bStats, bFile, bIdx, bNew, bTaint, bStreak>>
    /\ UNCHANGED besideBounty

\* the steps of the loop as such
BStart(got) == CheckStart(got) /\ UNCHANGED <<trackVars, dualVars>>
BMember(o, part) == CheckMember(o, part) /\ UNCHANGED <<trackVars, dualVars>>
BFinish(o, s) == CheckFinish(o, s) /\ UNCHANGED <<trackVars, dualVars>>
BPublish(ok) == LoopPublish(ok) /\ UNCHANGED <<trackVars, dualVars>>

\* the process dies wherever the loop is
BCrash ==
    /\ bpc # "down"
    /\ bpc' = "down"
    /\ bIdx' = 0
    /\ bNew' = {}
    /\ bStreak' = 0
    /\ bTaint' = TRUE
    /\ UNCHANGED <<bUp, bKnown, bFiller, bStats, bFile, bPub, bBeats>>
    /\ UNCHANGED notBounty

\* the process starts again: BountyMonitor.__init__ runs _load_cache
BRestart ==
    /\ bpc = "down"
    /\ bKnown' = bFile.known
    /\ bFiller' = bFile.filler
    /\ bStats' = [found |-> bFile.found, checks |-> bFile.checks]
    /\ bpc' = "idle"
    /\ UNCHANGED <<bUp, bFile, bIdx, bNew, bPub, bBeats, bTaint, bStreak>>
    /\ UNCHANGED notBounty

\* postings are listed on or removed from a member
EnvBounty(m, ks) ==
    /\ ks # bUp[m]
    /\ bUp' = [bUp EXCEPT ![m] = ks]
    /\ bTaint' = TRUE
    /\ bStreak' = 0
    /\ UNCHANGED <<bKnown, bFiller, bStats, bFile, bpc, bIdx, bNew, bPub, bBeats>>
    /\ UNCHANGED notBounty

BountyNext ==
    \/ \E got \in BOOLEAN : BStart(got)
    \/ \E o \in MemberOutcomes, part \in SUBSET Keys : BMember(o, part)
    \/ \E o \in {"ok", "kept"}, s \in SUBSET Keys : BFinish(o, s)
    \/ \E ok \in BOOLEAN : BPublish(ok)
    \/ BCrash
    \/ BRestart
    \/ \E m \in Members : \E ks \in SUBSET KeysOf(m) : EnvBounty(m, ks)


----------------------------------------------------------------------------
(* BountyMonitor: the calls of check_bounties, by the loop and by the command *)

\* the loop calls check_bounties()
TStart(got) ==
    /\ CheckStart(got)
    /\ bPass' = [NoPass EXCEPT !.by = "loop", !.ran = got, !.known0 = bKnown,
                               !.checks0 = bStats.checks]
    /\ UNCHANGED <<bQuiet, bBeatRun>>
    /\ UNCHANGED dualVars

TMember(o, part) ==
    /\ CheckMember(o, part)
    /\ bPass' = [bPass EXCEPT !.visited = Append(@, MemberOrder[bIdx]),
                              !.fetched = @ \cup (IF o = "ok"
                                                 THEN bUp[MemberOrder[bIdx]]
                                                 ELSE {})]
    /\ UNCHANGED <<bQuiet, bBeatRun>>
    /\ UNCHANGED dualVars

TFinish(o, s) ==
    /\ CheckFinish(o, s)
    /\ bPass' = [bPass EXCEPT !.ret = bNew, !.wrote = (o = "ok")]
    /\ UNCHANGED <<bQuiet, bBeatRun>>
    /\ UNCHANGED dualVars

\* the loop cycle ends: with new postings, with the heartbeat, or with nothing
TPublish(ok) ==
    /\ LoopPublish(ok)
    /\ bQuiet' = IF bNew # {} \/ (ShouldPublish(bNew, bStats.checks) /\ ok)
                 THEN 0
                 ELSE Min(bQuiet + 1, HeartbeatEvery)
    /\ bBeatRun' = IF bNew = {} /\ ShouldPublish(bNew, bStats.checks) /\ ok
                   THEN Min(bBeatRun + 1, 2)
                   ELSE 0
    /\ UNCHANGED bPass
    /\ UNCHANGED dualVars

\* the bounties command calls check_bounties(test_count = n), n > 0, on the
\* monitor while its loop sleeps: no await in that branch, so it is one step
ManualTest(n, now, o, s) ==
    /\ bpc = "idle"
    /\ bStats.checks < MaxChecks
    /\ LET new == NewKeys(TestKeys(n, now), bKnown)
           known1 == bKnown \cup new
       IN /\ bStats' = [found |-> bStats.found + Cardinality(new),
                        checks |-> bStats.checks + 1]
          /\ bFile' = IF o = "ok" THEN SavedCache(known1, bFiller, bStats') ELSE bFile
          /\ IF TrimFires(known1, bFiller)
             THEN /\ TrimKeeps(known1, bFiller, s)
                  /\ bKnown' = s
                  /\ bFiller' = CacheKeep - Cardinality(s)
             ELSE /\ s = known1
                  /\ bKnown' = known1
                  /\ UNCHANGED bFiller
          /\ bPass' = [NoPass EXCEPT !.by = "cmd", !.n = n, !.known0 = bKnown,
                                     !.checks0 = bStats.checks, !.ret = new,
                                     !.wrote = (o = "ok")]
    /\ bTaint' = TRUE
    /\ bStreak' = 0
    /\ UNCHANGED <<bUp, bpc, bIdx, bNew, bPub, bBeats, bQuiet, bBeatRun>>
    /\ UNCHANGED dualVars
    /\ UNCHANGED besideBounty

PassNext ==
    \/ \E got \in BOOLEAN : TStart(got)
    \/ \E o \in MemberOutcomes, part \in SUBSET Keys : TMember(o, part)
    \/ \E o \in {"ok", "kept"}, s \in SUBSET Keys : TFinish(o, s)
    \/ \E ok \in BOOLEAN : TPublish(ok)
    \/ \E m \in Members : \E ks \in SUBSET KeysOf(m) : EnvBounty(m, ks)

TestNext ==
    \/ \E n \in 1..MaxTest, now \in TestClock, o \in {"ok", "kept"}, s \in SUBSET AllKeys :
          ManualTest(n, now, o, s)
    \/ BCrash
    \/ BRestart
    \/ \E m \in Members : \E ks \in SUBSET KeysOf(m) : EnvBounty(m, ks)

----------------------------------------------------------------------------
(* BountyMonitor: the bounties command on the monitor whose loop is running *)

\* how many calls have returned each of the keys in new
Returned(ret, new) == [k \in Keys |-> IF k \in new THEN Min(ret[k] + 1, 2) ELSE ret[k]]

\* an empty cache, or one that the next key takes over the limit
DualInit == BountyInitWith({0, CacheLimit}) /\ TrackInit

\* the steps of the loop's check_bounties, with what it returns counted
DStart(got) ==
    /\ CheckStart(got)
    /\ UNCHANGED <<trackVars, dualVars>>

DMember(o, part) ==
    /\ CheckMember(o, part)
    /\ UNCHANGED <<trackVars, dualVars>>

DFinish(o, s) ==
    /\ CheckFinish(o, s)
    /\ kRet' = Returned(kRet, bNew)
    /\ kTrim' = (kTrim \/ TrimFires(bKnown, bFiller))
    /\ UNCHANGED <<trackVars, cRun>>

DPublish(ok) ==
    /\ LoopPublish(ok)
    /\ UNCHANGED <<trackVars, dualVars>>

\* bounties(): bounty_monitor.check_bounties(0) in the command's task, up to
\* the await of get_faction_members and its result
ManualStart(got) ==
    /\ cRun.pc = "idle"
    /\ bpc # "down"
    /\ bStats.checks < MaxChecks
    /\ cRun' = IF got THEN [NoRun EXCEPT !.pc = "members", !.idx = 1]
               ELSE NoRun
    /\ UNCHANGED <<kRet, kTrim>>
    /\ UNCHANGED <<bountyVars, trackVars>>
    /\ UNCHANGED besideBounty

\* one iteration of the command's `for member_id, member in members.items()`,
\* on the same known_bounty_keys
ManualMember(o, part) ==
    /\ cRun.pc = "members"
    /\ part \subseteq bUp[MemberOrder[cRun.idx]]
    /\ o # "malformed" => part = {}
    /\ LET m == MemberOrder[cRun.idx]
           new == NewKeys(Processed(bUp[m], o, part), bKnown)
       IN /\ cRun' = [cRun EXCEPT !.new = @ \cup new,
                                  !.idx = IF @ < Len(MemberOrder) THEN @ + 1 ELSE 0,
                                  !.pc = IF cRun.idx < Len(MemberOrder) THEN "members"
                                         ELSE "finish"]
          /\ bKnown' = bKnown \cup new
    /\ bTaint' = TRUE
    /\ bStreak' = 0
    /\ UNCHANGED <<kRet, kTrim>>
    /\ UNCHANGED <<bUp, bFiller, bStats, bFile, bpc, bIdx, bNew, bPub, bBeats>>
    /\ UNCHANGED trackVars
    /\ UNCHANGED besideBounty

\* the end of the command's check_bounties: statistics, _save_cache,
\* _clean_old_cache_entries, and the keys it returns
ManualFinish(o, s) ==
    /\ cRun.pc = "finish"
    /\ bStats' = [found |-> bStats.found + Cardinality(cRun.new),
                  checks |-> bStats.checks + 1]
    /\ bFile' = IF o = "ok" THEN SavedCache(bKnown, bFiller, bStats') ELSE bFile
    /\ IF TrimFires(bKnown, bFiller)
       THEN /\ TrimKeeps(bKnown, bFiller, s)
            /\ bKnown' = s
            /\ bFiller' = CacheKeep - Cardinality(s)
       ELSE /\ s = bKnown
            /\ UNCHANGED <<bKnown, bFiller>>
    /\ kRet' = Returned(kRet, cRun.new)
    /\ kTrim' = (kTrim \/ TrimFires(bKnown, bFiller))
    /\ cRun' = NoRun
    /\ bTaint' = TRUE
    /\ bStreak' = 0
    /\ UNCHANGED <<bUp, bpc, bIdx, bNew, bPub, bBeats>>
    /\ UNCHANGED trackVars
    /\ UNCHANGED besideBounty


DualNext ==
    \/ \E got \in BOOLEAN : DStart(got)
    \/ \E o \in MemberOutcomes, part \in SUBSET Keys : DMember(o, part)
    \/ \E o \in {"ok", "kept"}, s \in SUBSET Keys : DFinish(o, s)
    \/ \E ok \in BOOLEAN : DPublish(ok)
    \/ \E got \in BOOLEAN : ManualStart(got)
    \/ \E o \in MemberOutcomes, part \in SUBSET Keys : ManualMember(o, part)
    \/ \E o \in {"ok", "kept"}, s \in SUBSET Keys : ManualFinish(o, s)
    \/ \E m \in Members : \E ks \in SUBSET KeysOf(m) : EnvBounty(m, ks)
----------------------------------------------------------------------------
(* get_war_data: the classification of a ranked war *)

MaxClock == 3

\* ranked_war.get("end"): the key is absent (None), holds something that is not
\* a number, or holds a number
RawEnds ==
    {[kind |-> "absent", v |-> 0], [kind |-> "text", v |-> 0]}
    \cup {[kind |-> "num", v |-> n] : n \in 0..MaxClock}

\* `if end_timestamp is None: end_timestamp = 0` /
\* `elif not isinstance(end_timestamp, (int, float)): end_timestamp = 0`
NormalizeEnd(e) == IF e.kind = "num" THEN e.v ELSE 0

\* the status get_war_data assigns to the raw fields at clock reading now
StatusOf(start, e, now) == Classify(start, NormalizeEnd(e), now)

ClassInitWith(starts, ends) ==
    /\ rwStart \in starts
    /\ rwEnd \in ends
    /\ rwNow = 0
    /\ rwStatus = "none"
    /\ rwAt = None
    /\ rwPrev = "none"

ClassInit == ClassInitWith(0..MaxClock, RawEnds)
ClassParked == ClassInitWith({0}, {[kind |-> "absent", v |-> 0]})

\* a poll: get_war_data reads the clock and classifies the war
ClassifyPoll ==
    /\ rwPrev' = rwStatus
    /\ rwStatus' = StatusOf(rwStart, rwEnd, rwNow)
    /\ rwAt' = rwNow
    /\ UNCHANGED <<rwStart, rwEnd, rwNow>>
    /\ UNCHANGED notClass

\* the clock moves on between polls
ClockStep ==
    /\ rwNow < MaxClock
    /\ rwNow' = rwNow + 1
    /\ UNCHANGED <<rwStart, rwEnd, rwStatus, rwAt, rwPrev>>
    /\ UNCHANGED notClass

ClassNext ==
    \/ ClassifyPoll
    \/ ClockStep


----------------------------------------------------------------------------
(* WarMonitor.create_progress_bar *)

MaxScore == 4
MaxTarget == 3
MaxBarLen == 3

\* int(x) of a quotient n / d with d > 0: rounds towards zero
IntOf(n, d) == IF n >= 0 THEN n \div d ELSE -((-n) \div d)

\* str * n: n copies, none when n is negative
Times(n) == IF n > 0 THEN n ELSE 0

\* filled = int(min(current / target, 1.0) * length)
Filled(current, target, length) ==
    IF current >= target THEN length ELSE IntOf(current * length, target)

\* create_progress_bar: the number of filled and of empty segments in the string
\* it returns
create_progress_bar(current, target, length) ==
    IF target <= 0
    THEN [filled |-> 0, empty |-> Times(length)]
    ELSE [filled |-> Times(Filled(current, target, length)),
          empty |-> Times(length - Filled(current, target, length))]

NoBar == [filled |-> -1, empty |-> -1]

BarInitWith(scores, targets, lengths) ==
    /\ barCurrent \in scores
    /\ barTarget \in targets
    /\ barLength \in lengths
    /\ barOut = NoBar

BarInit == BarInitWith(-MaxScore..MaxScore, -1..MaxTarget, 0..MaxBarLen)
BarParked == BarInitWith({0}, {0}, {0})

\* create_war_embed renders the bar of a score
RenderBar ==
    /\ barOut = NoBar
    /\ barOut' = create_progress_bar(barCurrent, barTarget, barLength)
    /\ UNCHANGED <<barCurrent, barTarget, barLength>>
    /\ UNCHANGED notBar

\* the next poll brings another score
NewScore(c) ==
    /\ barOut # NoBar
    /\ c # barCurrent
    /\ barCurrent' = c
    /\ barOut' = NoBar
    /\ UNCHANGED <<barTarget, barLength>>
    /\ UNCHANGED notBar

BarNext ==
    \/ RenderBar
    \/ \E c \in -MaxScore..MaxScore : NewScore(c)
----------------------------------------------------------------------------
(* start(), stop(), the monitor task and the manual command of a module *)

MaxInst == 2
MaxRec == 1

\* the monitor objects that can come to exist, by start() or for a command
Insts == 1..MaxInst
\* the calls of start(): as many as there can be monitors
StartCalls == Insts
LifeModules == {"war", "bounty"}

\* start(): bounty awaits client.wait_until_ready() between its test of the
\* global monitor and the creation of a new one; war does not
AwaitsBeforeCreate(m) == m = "bounty"

\* the manual command calls check_bounties, which changes and saves the cache;
\* war_status only fetches
CommandSaves(m) == m = "bounty"

\* bounties() creates a temporary BountyMonitor when there is no global one;
\* war_status answers "not running"
CommandMakesMonitor(m) == m = "bounty"

\* check_bounties saves inside the fetch step, before anything is published;
\* the war loop saves after its publish step
SavesBeforePublish(m) == m = "bounty"

CatchesAll(e) == TRUE

CatchesNone(e) == FALSE

\* `except Exception` of the loop body: asyncio.CancelledError is a
\* BaseException and passes through it
Catches(e) == e = "error"

NoMonitor == [made |-> FALSE, is_monitoring |-> FALSE, task |-> "none", loc |-> "none",
              rec |-> 0, lastErr |-> "none"]
NoStop == [pc |-> "none", inst |-> 0, wrote |-> None, during |-> FALSE, after |-> FALSE]
NoCmd == [pc |-> "none", inst |-> 0]

\* the record changes: a new war id or message id, new keys, a counter
Changed(r) == IF r < MaxRec THEN r + 1 ELSE MaxRec

\* json.dump of a record r, unless the write fails (the error is logged)
Saved(f, o, r) == IF o = "savefail" THEN f ELSE r

\* the constructor: is_monitoring False, no task, the record loaded from the file
Constructed(f) == [NoMonitor EXCEPT !.made = TRUE, !.rec = f]

Free == {i \in Insts : ~mon[i].made}
NewInst == CHOOSE i \in Free : \A j \in Free : i <= j

LifeInitWith(mods) ==
    /\ lMod \in mods
    /\ gMon = 0
    /\ mon = [i \in Insts |-> NoMonitor]
    /\ lFile = 0
    /\ startc = [c \in StartCalls |-> "new"]
    /\ stopc = NoStop
    /\ cmd = NoCmd

LifeInit == LifeInitWith(LifeModules)
LifeParked == LifeInitWith({"war"})

\* X = Monitor(client); X.start_monitoring(): the module's global now names
\* the new instance, whose loop is a task that has not run yet
Create ==
    /\ Free # {}
    /\ gMon' = NewInst
    /\ mon' = [mon EXCEPT ![NewInst] =
                  [Constructed(lFile) EXCEPT !.is_monitoring = TRUE, !.task = "live",
                                             !.loc = "new"]]

\* start(client) up to its return or its first suspension
Start(c) ==
    /\ startc[c] = "new"
    /\ IF gMon # 0 /\ mon[gMon].is_monitoring
       THEN /\ startc' = [startc EXCEPT ![c] = "done"]
            /\ UNCHANGED <<gMon, mon>>
       ELSE IF AwaitsBeforeCreate(lMod)
       THEN /\ startc' = [startc EXCEPT ![c] = "wait"]
            /\ UNCHANGED <<gMon, mon>>
       ELSE /\ Create
            /\ startc' = [startc EXCEPT ![c] = "done"]
    /\ UNCHANGED <<lMod, lFile, stopc, cmd>>
    /\ UNCHANGED notLife

\* start(client) after client.wait_until_ready()
StartResume(c) ==
    /\ startc[c] = "wait"
    /\ Create
    /\ startc' = [startc EXCEPT ![c] = "done"]
    /\ UNCHANGED <<lMod, lFile, stopc, cmd>>
    /\ UNCHANGED notLife

\* what the stop() call has seen the loop of instance i do
Seen(i) ==
    IF stopc.inst = i /\ stopc.pc # "none"
    THEN [stopc EXCEPT !.during = TRUE, !.after = (stopc.pc = "returned")]
    ELSE stopc

\* the loop body's exception e at a suspension point: caught (a sleep, then the
\* next test of is_monitoring) or the end of the task
Raised(m, e, how) ==
    IF Catches(e)
    THEN [m EXCEPT !.loc = "errsleep", !.task = "live", !.lastErr = how]
    ELSE [m EXCEPT !.loc = "done", !.lastErr = how,
                   !.task = IF e = "cancelled" THEN "cancelled" ELSE "dead"]

\* while self.is_monitoring
Tested(m) ==
    IF m.is_monitoring THEN [m EXCEPT !.loc = "fetch"]
    ELSE [m EXCEPT !.loc = "done", !.task = "exited"]

\* _monitor_loop of instance i from one suspension point to the next; o is how
\* the awaited operation ended
LoopStep(i, o) ==
    /\ mon[i].task = "live"
    /\ LET m == mon[i] IN
       CASE m.loc \in {"new", "sleep", "errsleep"} ->
              /\ o = "ok"
              /\ mon' = [mon EXCEPT ![i] = Tested(m)]
              /\ UNCHANGED lFile
         [] m.loc = "fetch" ->
              /\ o \in {"ok", "none", "error", "savefail"}
              /\ o = "savefail" => SavesBeforePublish(lMod)
              /\ LET r == IF o = "ok" THEN Changed(m.rec) ELSE m.rec IN
                 /\ mon' = [mon EXCEPT ![i] =
                               IF o = "error" THEN Raised(m, "error", "fetch")
                               ELSE [m EXCEPT !.rec = r, !.lastErr = "none",
                                              !.loc = IF o = "none" THEN "sleep"
                                                      ELSE "publish"]]
                 /\ lFile' = IF o # "error" /\ SavesBeforePublish(lMod)
                             THEN Saved(lFile, o, r) ELSE lFile
         [] m.loc = "publish" ->
              /\ o \in {"ok", "error", "savefail"}
              /\ o = "savefail" => ~SavesBeforePublish(lMod)
              /\ LET r == IF SavesBeforePublish(lMod) THEN m.rec ELSE Changed(m.rec) IN
                 /\ mon' = [mon EXCEPT ![i] =
                               IF o = "error" THEN Raised(m, "error", "publish")
                               ELSE [m EXCEPT !.rec = r, !.loc = "sleep",
                                              !.lastErr = IF o = "savefail" THEN "save"
                                                          ELSE m.lastErr]]
                 /\ lFile' = IF o # "error" /\ ~SavesBeforePublish(lMod)
                             THEN Saved(lFile, o, r) ELSE lFile
    /\ stopc' = Seen(i)
    /\ UNCHANGED <<lMod, gMon, startc, cmd>>
    /\ UNCHANGED notLife

\* stop() up to `await self.monitor_task`: is_monitoring = False and
\* monitor_task.cancel(), which a finished task ignores
StopCall ==
    /\ stopc.pc = "none"
    /\ gMon # 0
    /\ mon' = [mon EXCEPT ![gMon].is_monitoring = FALSE,
                          ![gMon].task = IF @ = "live" THEN "cancelling" ELSE @]
    /\ stopc' = [NoStop EXCEPT !.pc = "await", !.inst = gMon]
    /\ UNCHANGED <<lMod, gMon, lFile, startc, cmd>>
    /\ UNCHANGED notLife

\* the cancelled task is resumed: CancelledError at the suspension point it is
\* in, or, if it never ran, the end of the task at once
LoopCancelled(i) ==
    /\ mon[i].task = "cancelling"
    /\ IF mon[i].loc = "new"
       THEN /\ mon' = [mon EXCEPT ![i].task = "cancelled", ![i].loc = "done"]
            /\ UNCHANGED stopc
       ELSE /\ mon' = [mon EXCEPT ![i] = Raised(@, "cancelled", @.lastErr)]
            /\ stopc' = IF mon'[i].task = "live" THEN Seen(i) ELSE stopc
    /\ UNCHANGED <<lMod, gMon, lFile, startc, cmd>>
    /\ UNCHANGED notLife

\* stop_monitoring after its await: the task's exception, if it ended by one,
\* is raised again; otherwise _save_state() / _save_cache() and the return
StopReturn(o) ==
    /\ stopc.pc = "await"
    /\ mon[stopc.inst].task \in {"none", "cancelled", "exited", "dead"}
    /\ IF mon[stopc.inst].task = "dead"
       THEN /\ o = "ok"
            /\ stopc' = [stopc EXCEPT !.pc = "raised"]
            /\ UNCHANGED lFile
       ELSE /\ stopc' = [stopc EXCEPT !.pc = "returned", !.wrote = mon[stopc.inst].rec]
            /\ lFile' = Saved(lFile, o, mon[stopc.inst].rec)
    /\ UNCHANGED <<lMod, gMon, mon, startc, cmd>>
    /\ UNCHANGED notLife

\* the manual command up to its fetch: on the global monitor, or on a
\* temporary one made for the call
CmdCall ==
    /\ cmd.pc = "none"
    /\ IF gMon # 0
       THEN /\ cmd' = [pc |-> "check", inst |-> gMon]
            /\ UNCHANGED mon
       ELSE /\ CommandMakesMonitor(lMod)
            /\ Free # {}
            /\ cmd' = [pc |-> "check", inst |-> NewInst]
            /\ mon' = [mon EXCEPT ![NewInst] = Constructed(lFile)]
    /\ UNCHANGED <<lMod, gMon, lFile, startc, stopc>>
    /\ UNCHANGED notLife

\* the command's fetch ends and its answer is edited into the channel
CmdFinish(o) ==
    /\ cmd.pc = "check"
    /\ IF CommandSaves(lMod) /\ o # "error"
       THEN LET r == IF o = "ok" THEN Changed(mon[cmd.inst].rec) ELSE mon[cmd.inst].rec IN
            /\ mon' = [mon EXCEPT ![cmd.inst].rec = r]
            /\ lFile' = Saved(lFile, o, r)
       ELSE /\ o \in {"ok", "error"}
            /\ UNCHANGED <<mon, lFile>>
    /\ cmd' = NoCmd
    /\ UNCHANGED <<lMod, gMon, startc, stopc>>
    /\ UNCHANGED notLife

LoopOutcomes == {"ok", "none", "error", "savefail"}

LifeNext ==
    \/ \E c \in StartCalls : Start(c)
    \/ \E c \in StartCalls : StartResume(c)
    \/ \E i \in Insts, o \in LoopOutcomes : LoopStep(i, o)
    \/ StopCall
    \/ \E i \in Insts : LoopCancelled(i)
    \/ \E o \in {"ok", "savefail"} : StopReturn(o)
    \/ CmdCall
    \/ \E o \in LoopOutcomes : CmdFinish(o)

\* the module without its manual command
TaskNext ==
    \/ \E c \in StartCalls : Start(c)
    \/ \E c \in StartCalls : StartResume(c)
    \/ \E i \in Insts, o \in LoopOutcomes : LoopStep(i, o)
    \/ StopCall
    \/ \E i \in Insts : LoopCancelled(i)
    \/ \E o \in {"ok", "savefail"} : StopReturn(o)

\* the event loop resumes every task whose awaited operation has ended
LifeFair ==
    /\ \A i \in Insts : WF_vars(\E o \in LoopOutcomes : LoopStep(i, o))
    /\ \A i \in Insts : WF_vars(LoopCancelled(i))
----------------------------------------------------------------------------
(* the monitor tasks on the one event loop of the bot *)

Monitors == {"war", "bounty", "stock", "attack", "chain"}

BlockingNone(t) == FALSE

\* the network request of stock, attack and chain is requests.get(url,
\* timeout=20), a synchronous call made inside the task; war and bounty await
\* an aiohttp request
Blocking(t) == t \in {"stock", "attack", "chain"}

\* only the TornAPIClient of war and bounty spaces its requests
Spaces(t) == t \in {"war", "bounty"}

\* the event loop runs one task at a time and regains control only when that
\* task awaits: u can take a step when no other task's synchronous call is
\* in progress
Able(u) == evBlocked \in {"none", u}

\* where task t is suspended next after phase ph; o tells whether its request
\* gave something to publish
NextPhase(t, ph, o) ==
    CASE ph = "sleep" -> IF Spaces(t) THEN "spacing" ELSE "request"
      [] ph = "spacing" -> "request"
      [] ph = "request" -> IF o = "ok" THEN "publish" ELSE "sleep"
      [] OTHER -> "sleep"

\* every monitor task starts by awaiting client.wait_until_ready() or a sleep
EvInit ==
    /\ evPhase = [t \in Monitors |-> "sleep"]
    /\ evBlocked = "none"

\* task t takes its next step: the operation it waited for has ended, or its
\* synchronous request returns, and it runs on to its next wait or into its
\* next synchronous request
Step(t, o) ==
    /\ Able(t)
    /\ o = "none" => evPhase[t] = "request"
    /\ evPhase' = [evPhase EXCEPT ![t] = NextPhase(t, @, o)]
    /\ evBlocked' = IF evPhase'[t] = "request" /\ Blocking(t) THEN t ELSE "none"
    /\ UNCHANGED notEv

EvNext == \E t \in Monitors, o \in {"ok", "none"} : Step(t, o)

----------------------------------------------------------------------------
(* _monitor_loop: the sleep that ends each iteration *)

\* asyncio.sleep(120) of the war loop, on every path
WarSleep == 120
\* asyncio.sleep(60) of the bounty loop when the channel is missing
ChannelSleep == 60
\* asyncio.sleep(60) of the bounty loop's except branch
ErrorSleep == 60
\* BountyMonitor.check_interval as the constructor sets it
DefaultInterval == 300

MaxCycles == 4

SleepModules == {"war", "bounty"}

\* the intervals start(client, channel_id, interval) can be given
Intervals == {ErrorSleep, WarSleep, DefaultInterval}

\* how an iteration of the loop body can go: the fetch gives nothing (no war
\* data, no faction members), get_channel gives None, an exception reaches the
\* loop's except, or the iteration runs to its end with or without a message
CycleOutcomes == {"nothing", "nochannel", "error", "quiet", "published"}
FailedOutcomes == {"nothing", "nochannel", "error"}

\* the argument of the asyncio.sleep that ends an iteration
SleepAfter(m, o, interval) ==
    IF m = "war" THEN WarSleep
    ELSE CASE o = "nochannel" -> ChannelSleep
           [] o = "error" -> ErrorSleep
           [] OTHER -> interval

SleepInitWith(mods) ==
    /\ slMod \in mods
    /\ slInterval \in (IF slMod = "war" THEN {WarSleep} ELSE Intervals)
    /\ slOut = "none"
    /\ slSlept = 0
    /\ slGood = 0
    /\ slCycles = 0

SleepInit == SleepInitWith(SleepModules)
SleepParked == SleepInitWith({"war"})

\* one iteration of `while self.is_monitoring`, up to the end of its sleep
Cycle(o) ==
    /\ slCycles < MaxCycles
    /\ slOut' = o
    /\ slSlept' = SleepAfter(slMod, o, slInterval)
    /\ slGood' = IF o \in FailedOutcomes THEN slGood ELSE slSlept'
    /\ slCycles' = slCycles + 1
    /\ UNCHANGED <<slMod, slInterval>>
    /\ UNCHANGED notSleep

SleepNext == \E o \in CycleOutcomes : Cycle(o)

----------------------------------------------------------------------------
(* WarMonitor.calculate_time_remaining *)

Day == 86400
Hour == 3600
Minute == 60

MaxDays == 1

\* the readings of the clock: on a second, or half a second past it
NowSecond == Day
NowChoices == {2 * NowSecond, 2 * NowSecond + 1}

\* the seconds from the clock's second to a timestamp: past, at it, or ahead
\* by days, hours, minutes and seconds around each threshold of the cascade
Ahead ==
    {d * Day + h * Hour + m * Minute + s :
        d \in 0..MaxDays, h \in {0, 1, 23}, m \in {0, 1, 59}, s \in {0, 1, 59}}
StampChoices == {NowSecond - 1} \cup {NowSecond + a : a \in Ahead}

TimeStatuses == {"SCHEDULED", "ACTIVE", "ENDED", "NOT_FOUND"}

WholeSecondsRounded(d2) == (d2 + 1) \div 2

\* int(diff.total_seconds()) of a positive timedelta of d2 half seconds
WholeSeconds(d2) == d2 \div 2

\* the three formats, by total_seconds
Cascade(verb, total) ==
    IF total >= Day
    THEN <<verb, total \div Day, "d", (total % Day) \div Hour, "h">>
    ELSE IF total >= Hour
    THEN <<verb, total \div Hour, "h", (total % Hour) \div Minute, "m">>
    ELSE <<verb, total \div Minute, "m">>

\* calculate_time_remaining(war_data) at the clock reading now2 (half seconds)
TimeRemaining(status, start, end, now2) ==
    CASE status = "SCHEDULED" ->
            IF 2 * start <= now2 THEN <<"WAR STARTING!">>
            ELSE Cascade("Starts in", WholeSeconds(2 * start - now2))
      [] status = "ACTIVE" ->
            IF end > 0
            THEN IF 2 * end <= now2 THEN <<"WAR ENDED!">>
                 ELSE Cascade("Ends in", WholeSeconds(2 * end - now2))
            ELSE <<"WAR ACTIVE!">>
      [] status = "ENDED" -> <<"WAR ENDED!">>
      [] OTHER -> <<"UNKNOWN STATUS">>

TimeInitWith(statuses, stamps, ends, nows) ==
    /\ trStatus \in statuses
    /\ trStart \in stamps
    /\ trEnd \in ends
    /\ trNow \in nows
    /\ trOut = <<>>

TimeInit == TimeInitWith(TimeStatuses, StampChoices, {0} \cup StampChoices, NowChoices)
TimeParked == TimeInitWith({"ENDED"}, {NowSecond}, {0}, {2 * NowSecond})

\* create_war_embed fills its "Status" field
RenderTime ==
    /\ trOut = <<>>
    /\ trOut' = TimeRemaining(trStatus, trStart, trEnd, trNow)
    /\ UNCHANGED <<trStatus, trStart, trEnd, trNow>>
    /\ UNCHANGED notTime

TimeNext == RenderTime

----------------------------------------------------------------------------
(* Specifications *)

\* one caller: a monitor loop that owns its client
ClientSpecInit ==
    /\ ClientInit
    /\ WarInit
    /\ BountyParked
    /\ ClassParked
    /\ BarParked
    /\ KeyParked
    /\ LifeParked
    /\ EvInit
    /\ SleepParked
    /\ TimeParked
ClientSpec == ClientSpecInit /\ [][ClientNext]_vars

\* two callers on one instance: the monitor loop and the status command
SharedClientSpecInit ==
    /\ SharedInit
    /\ WarInit
    /\ BountyParked
    /\ ClassParked
    /\ BarParked
    /\ KeyParked
    /\ LifeParked
    /\ EvInit
    /\ SleepParked
    /\ TimeParked
SharedClientSpec == SharedClientSpecInit /\ [][SharedNext]_vars

\* the conflict monitor with its channel, its state file and the upstream API
WarSpecInit ==
    /\ ClientInitWith({}, {"war"})
    /\ WarInit
    /\ BountyParked
    /\ ClassParked
    /\ BarParked
    /\ KeyParked
    /\ LifeParked
    /\ EvInit
    /\ SleepParked
    /\ TimeParked
WarSpec == WarSpecInit /\ [][WarNext]_vars

\* the conflict monitor against every outcome of its fetches
WarFetchSpecInit ==
    /\ ClientInitWith({}, {"war"})
    /\ WarInit
    /\ BountyParked
    /\ ClassParked
    /\ BarParked
    /\ KeyParked
    /\ LifeParked
    /\ EvInit
    /\ SleepParked
    /\ TimeParked
WarFetchSpec == WarFetchSpecInit /\ [][WarFetchNext]_vars

\* the bounty monitor with its channel, its cache file and the upstream API
BountySpecInit ==
    /\ ClientInitWith({}, {"bounty"})
    /\ WarInit
    /\ BountyInit
    /\ ClassParked
    /\ BarParked
    /\ KeyParked
    /\ LifeParked
    /\ EvInit
    /\ SleepParked
    /\ TimeParked
BountySpec == BountySpecInit /\ [][BountyNext]_vars

\* get_war_data's classification over every start, end and clock reading
ClassifySpecInit ==
    /\ ClientInitWith({}, {"war"})
    /\ WarInit
    /\ BountyParked
    /\ ClassInit
    /\ BarParked
    /\ KeyParked
    /\ LifeParked
    /\ EvInit
    /\ SleepParked
    /\ TimeParked
ClassifySpec == ClassifySpecInit /\ [][ClassNext]_vars

\* create_progress_bar over every score, target and length
BarSpecInit ==
    /\ ClientInitWith({}, {"war"})
    /\ WarInit
    /\ BountyParked
    /\ ClassParked
    /\ BarInit
    /\ KeyParked
    /\ LifeParked
    /\ EvInit
    /\ SleepParked
    /\ TimeParked
BarSpec == BarSpecInit /\ [][BarNext]_vars

\* the passes of the bounty loop, each with what it started from and returned
PassSpecInit ==
    /\ ClientInitWith({}, {"bounty"})
    /\ WarInit
    /\ BountyParked
    /\ ClassParked
    /\ BarParked
    /\ KeyParked
    /\ LifeParked
    /\ EvInit
    /\ SleepParked
    /\ TimeParked
PassSpec == PassSpecInit /\ [][PassNext]_vars

\* the bounties command in test mode on a monitor whose loop is asleep
TestSpecInit ==
    /\ ClientInitWith({}, {"bounty"})
    /\ WarInit
    /\ BountyInit
    /\ ClassParked
    /\ BarParked
    /\ KeyParked
    /\ LifeParked
    /\ EvInit
    /\ SleepParked
    /\ TimeParked
TestSpec == TestSpecInit /\ [][TestNext]_vars

\* a module's start(), stop() and manual command around its monitor task
LifeSpecInit ==
    /\ ClientInitWith({}, {"war"})
    /\ WarInit
    /\ BountyParked
    /\ ClassParked
    /\ BarParked
    /\ KeyParked
    /\ LifeInit
    /\ EvInit
    /\ SleepParked
    /\ TimeParked
LifeSpec == LifeSpecInit /\ [][LifeNext]_vars

\* the five monitor tasks taking turns on the event loop
EvSpecInit ==
    /\ ClientInitWith({}, {"war"})
    /\ WarInit
    /\ BountyParked
    /\ ClassParked
    /\ BarParked
    /\ KeyParked
    /\ LifeParked
    /\ EvInit
    /\ SleepParked
    /\ TimeParked
EvSpec == EvSpecInit /\ [][EvNext]_vars

\* the loop's check and the command's check on one BountyMonitor
DualSpecInit ==
    /\ ClientInitWith({}, {"bounty"})
    /\ WarInit
    /\ DualInit
    /\ ClassParked
    /\ BarParked
    /\ KeyParked
    /\ LifeParked
    /\ EvInit
    /\ SleepParked
    /\ TimeParked
DualSpec == DualSpecInit /\ [][DualNext]_vars

\* a monitor loop's iterations and the sleep after each
SleepSpecInit ==
    /\ ClientInitWith({}, {"war"})
    /\ WarInit
    /\ BountyParked
    /\ ClassParked
    /\ BarParked
    /\ KeyParked
    /\ LifeParked
    /\ EvInit
    /\ SleepInit
    /\ TimeParked
SleepSpec == SleepSpecInit /\ [][SleepNext]_vars

\* calculate_time_remaining over statuses, timestamps and clock readings
TimeSpecInit ==
    /\ ClientInitWith({}, {"war"})
    /\ WarInit
    /\ BountyParked
    /\ ClassParked
    /\ BarParked
    /\ KeyParked
    /\ LifeParked
    /\ EvInit
    /\ SleepParked
    /\ TimeInit
TimeSpec == TimeSpecInit /\ [][TimeNext]_vars

\* the conflict monitor with crashes, restarts and stop_monitoring
WarStopSpecInit ==
    /\ ClientInitWith({}, {"war"})
    /\ WarInit
    /\ BountyParked
    /\ ClassParked
    /\ BarParked
    /\ KeyParked
    /\ LifeParked
    /\ EvInit
    /\ SleepParked
    /\ TimeParked
WarStopSpec == WarStopSpecInit /\ [][WarStopNext]_vars

\* unique_key over pairs of postings
KeySpecInit ==
    /\ ClientInitWith({}, {"bounty"})
    /\ WarInit
    /\ BountyParked
    /\ ClassParked
    /\ BarParked
    /\ KeyInit
    /\ LifeParked
    /\ EvInit
    /\ SleepParked
    /\ TimeParked
KeySpec == KeySpecInit /\ [][KeyNext]_vars
\* the scheduling the event loop and the 30 s request timeout give one call
FairClientSpec ==
    /\ ClientSpec
    /\ WF_vars(Tick)
    /\ \A t \in Tasks :
          /\ WF_vars(Wake(t))
          /\ WF_vars(BackoffWake(t))
          /\ WF_vars(\E o \in Outcomes : Respond(t, o))

\* the monitor task under an event loop that resumes it whenever it can run
FairLifeSpec == LifeSpecInit /\ [][TaskNext]_vars /\ LifeFair

\* the conflict monitor retrying under an event loop that keeps resuming it
FairWarSpec == WarSpecInit /\ [][WarRetryNext]_vars /\ WarRetryFair
----------------------------------------------------------------------------
(* Claims about the client *)

\* C7: any two consecutive outbound requests of one client instance, retry
\* attempts included, are issued at least rate_limit_delay (1.1 s) apart.
C7_MinSpacing == lastGap >= RateLimitDelay

\* C8: a call made by the only caller 0.2 s after the previous request was sent
\* sends its request at least 1.1 s after that request (it waits at least 0.9 s).
C8_SecondCallDelayed ==
    \A t \in Tasks :
        (tasks[t].pc = "inflight" /\ tasks[t].attempt = 0 /\ tasks[t].tsl = 2
            /\ lastSender = t)
        => lastGap >= 11

C8_Witness ==
    /\ tasks["loop"].pc = "inflight" /\ tasks["loop"].attempt = 0
    /\ tasks["loop"].tsl = 2 /\ clientKind = "bounty"
    /\ lastSender = "loop" /\ lastGap = 11 /\ sinceLast = 0

\* C9: when two tasks call fetch concurrently on one client instance, their two
\* outbound requests are still sent at least 1.1 s apart.
C9_SerializedSpacing ==
    (tasks["loop"].pc = "inflight" /\ tasks["cmd"].pc = "inflight")
    => lastGap >= RateLimitDelay

\* C10: every fetch call issues at most 3 outbound requests, whatever the
\* upstream answers, and terminates with a payload, a not-found result or a
\* raised error.
C10_BoundedFetch ==
    /\ [](\A t \in Tasks :
            /\ tasks[t].reqs <= 3
            /\ tasks[t].pc = "idle" =>
                  tasks[t].result \in {"none", "payload", "notfound", "APIError", "TimeoutError"}
            /\ tasks[t].pc # "idle" => tasks[t].result = "none")
    /\ \A t \in Tasks : (tasks[t].pc # "idle") ~> (tasks[t].pc = "idle")

C10_Witness ==
    /\ tasks["loop"].pc = "inflight"
    /\ tasks["loop"].reqs = 3
    /\ tasks["loop"].attempt = 2

\* C11: a 403 ends the call at once: the call raises APIError after that
\* request, sends no further request and returns neither a payload nor a
\* not-found result.
C11_AuthFailsAtOnce ==
    \A t \in Tasks :
        tasks[t].last = "403" => (tasks[t].pc = "idle" /\ tasks[t].result = "APIError")

C11_Witness ==
    /\ tasks["loop"].last = "403"
    /\ tasks["loop"].pc = "idle"
    /\ tasks["loop"].result = "APIError"

\* C15: a call whose latest request failed in transport, by a timeout as well as
\* by a connection error, is either retrying or has raised APIError: no other
\* exception reaches the caller.
C15_TransportRetried ==
    \A t \in Tasks :
        (tasks[t].last \in {"ClientError", "TimeoutError"} /\ tasks[t].pc = "idle")
        => tasks[t].result = "APIError"


ServerErrors == {"500", "503"}
C30_RetryAfterBackoff ==
    \A t \in Tasks :
        (tasks[t].pc = "inflight" /\ tasks[t].attempt > 0
            /\ tasks[t].last \in {"429"} \cup ServerErrors)
        => tasks[t].slept = BackoffTicks(tasks[t].attempt - 1)
----------------------------------------------------------------------------
(* Claims about the conflict monitor *)

\* C2: when a poll returns the persisted conflict identifier and the edit of the
\* published message succeeds, the monitor edits that message in place, posts
\* no new message and leaves war_message_id unchanged.
C2_EditInPlace ==
    (wpc \in {"save", "idle"} /\ cyc.branch = "same" /\ cyc.edit = "ok")
    => /\ cyc.send = "none"
       /\ mem.war_message_id = cyc.msg0
       /\ mem.war_message_id \in DOMAIN msgs
       /\ msgs[mem.war_message_id].shown = EmbedFor(warData)

C2_Witness ==
    /\ wpc = "save" /\ cyc.branch = "same" /\ cyc.edit = "ok"
    /\ mem.war_message_id \in DOMAIN msgs
    /\ msgs[mem.war_message_id].banner = "NEW RANKED WAR SCHEDULED!"
    /\ msgs[mem.war_message_id].shown = "ACTIVE"

\* C3: on a poll with an unchanged identifier a new message is posted only when
\* no message was associated or the edit reported the message gone; an edit
\* that fails for another reason posts no new message in that cycle.
C3_PostOnlyWhenGone ==
    (cyc.branch = "same" /\ warData.war_id \in WarIds)
    => /\ cyc.send = "ok" => cyc.edit \in {"nomsg", "notfound"}
       /\ cyc.edit = "error" => cyc.send # "ok"

\* C4, as claimed: a poll with a new identifier publishes exactly one new
\* message and the cycle ends with the state file holding the new identifier
\* and the id of that message.
C4_NewWarPublished ==
    (wpc = "idle" /\ cyc.branch = "new" /\ warData.war_id \in WarIds)
    => /\ mem.current_war_id = warData.war_id
       /\ cyc.send = "ok"
       /\ stateFile.valid
       /\ stateFile.current_war_id = warData.war_id
       /\ stateFile.war_message_id # None
       /\ stateFile.war_message_id = mem.war_message_id

\* C4, amended: a poll with a new identifier sets current_war_id, clears the old
\* association and attempts one send with the banner of the status; when the
\* send succeeds and the state file is written, the file holds the new
\* identifier and the id of the one new message; when the send fails no message
\* is associated.
C4_NewWarHandled ==
    (wpc \in {"send", "save", "idle"} /\ cyc.branch = "new")
    => /\ mem.current_war_id = warData.war_id
       /\ cyc.send # "ok" => mem.war_message_id = None
       /\ cyc.send = "ok" =>
             /\ mem.war_message_id \in DOMAIN msgs
             /\ mem.war_message_id # cyc.msg0
             /\ msgs[mem.war_message_id].war = warData.war_id
             /\ warData.status = "SCHEDULED" => cyc.banner = "NEW RANKED WAR SCHEDULED!"
             /\ warData.status = "ACTIVE" => cyc.banner = "RANKED WAR STARTED!"
       /\ (wpc = "idle" /\ cyc.send = "ok" /\ cyc.end = "saved") =>
             /\ stateFile.valid
             /\ stateFile.current_war_id = warData.war_id
             /\ stateFile.war_message_id = mem.war_message_id

C4_Witness ==
    /\ wpc = "idle" /\ cyc.branch = "new" /\ cyc.send = "ok" /\ cyc.end = "saved"
    /\ warData.war_id = 1 /\ warData.status = "ACTIVE"
    /\ cyc.banner = "RANKED WAR STARTED!"
    /\ stateFile.current_war_id = 1
    /\ stateFile.war_message_id = mem.war_message_id

C37_MessageOfCurrentWar ==
    mem.war_message_id # None =>
        /\ mem.war_message_id \in DOMAIN msgs
        /\ msgs[mem.war_message_id].war = mem.current_war_id

\* a message is associated with the current identifier while the state file
\* still names the message of the identifier before it
C37_Witness ==
    /\ mem.current_war_id \in WarIds
    /\ mem.war_message_id # None
    /\ msgs[mem.war_message_id].war = mem.current_war_id
    /\ stateFile.valid
    /\ stateFile.current_war_id # mem.current_war_id
    /\ stateFile.war_message_id \in DOMAIN msgs
    /\ msgs[stateFile.war_message_id].war = stateFile.current_war_id
    /\ lastCrash.at = "other"

\* the notification for the newly detected conflict w was not published
C40_SendFailed(w) ==
    /\ wpc \in {"save", "idle"}
    /\ cyc.branch = "new" /\ cyc.send \in {"error", "exception"}
    /\ mem.current_war_id = w
    /\ upstream.war_id = w

\* a message published for w is associated in memory and in the state file
C40_Recorded(w) ==
    /\ mem.current_war_id = w
    /\ mem.war_message_id \in DOMAIN msgs
    /\ msgs[mem.war_message_id].war = w
    /\ stateFile.valid
    /\ stateFile.current_war_id = w
    /\ stateFile.war_message_id = mem.war_message_id

\* C40: if publishing the notification for a newly detected conflict fails, the
\* monitor tries again on later cycles: as long as the conflict stays the
\* current one, with fetches that keep succeeding and sends that succeed in the
\* end, a message for it is eventually published and its id recorded in
\* war_message_id and in the state file.
C40_FailedPublishRetried ==
    \A w \in WarIds :
        C40_SendFailed(w) ~> (C40_Recorded(w) \/ upstream.war_id # w)

\* the first notification failed and a later cycle published and recorded one
C40_Witness ==
    /\ C40_Recorded(1)
    /\ upstream.war_id = 1
    /\ cyc.branch = "same" /\ cyc.edit = "nomsg" /\ cyc.send = "ok" /\ cyc.end = "saved"
    /\ wNow = 2
----------------------------------------------------------------------------
(* Claims about the bounty monitor *)

\* C1: a pass of check_bounties that follows a pass over the same payload, every
\* member fetched successfully in both, returns no new posting, whatever the
\* size of the known-key set before the first pass.
C1_SecondPassEmpty == (bpc = "publish" /\ bStreak = 2) => bNew = {}

\* C5: a posting's dedup key is in the persisted known-key set only after a
\* notification containing the posting has been published.
C5_PersistedAfterPublished == bFile.known \subseteq bPub


\* C21: a pass of the loop over the members, whichever of their fetches fail,
\* visits every member in order, returns exactly the postings with a key not
\* yet known that are listed on the members fetched successfully, counts one
\* check and writes the cache file.
C21_FailureIsolated ==
    (bpc = "publish" /\ bPass.by = "loop" /\ bPass.ran) =>
        /\ bPass.visited = MemberOrder
        /\ bNew = bPass.fetched \ bPass.known0
        /\ bStats.checks = bPass.checks0 + 1
        /\ bPass.wrote => (bFile.known = bPass.known0 \cup bNew
                              /\ bFile.checks = bStats.checks)

\* C23: the loop never completes 12 cycles in a row that find no new posting
\* without publishing the "no new bounties" heartbeat in one of them.
C23_HeartbeatWithinTwelve == bQuiet < HeartbeatEvery

\* the keys check_bounties fabricates for test_count = n
FabricatedKeys(n) == {unique_key(TestPosting(i, 0)) : i \in 1..n}

C32_HeartbeatAtMostOnce == bBeatRun < 2


\* C33: no overlapping cycles - at most one execution of check_bounties is in
\* progress on a BountyMonitor at any time, also when the bounties command is
\* used while the loop runs: the command's check is never between its first
\* and its last await while the loop's check is between its own.
C33_NoOverlappingChecks ==
    ~(bpc \in {"members", "finish"} /\ cRun.pc \in {"members", "finish"})

\* C39: with the command's check and the loop's check interleaved on one
\* BountyMonitor, every dedup key is returned as new by at most one call of
\* check_bounties, as long as no trim has dropped keys.
C39_KeyReturnedOnce == kTrim \/ \A k \in Keys : kRet[k] <= 1

\* both checks ran interleaved, each returned a key, and no key came back twice
C39_Witness ==
    /\ ~kTrim
    /\ \A k \in Keys : kRet[k] = 1
    /\ cRun.pc = "finish"
    /\ bpc = "publish"
    /\ bNew # {}
    /\ cRun.new = {}

\* C35: a monitor restarted after a completed cycle starts with exactly the
\* record the previous run held in memory at the end of that cycle: when a
\* check of the bounty monitor has run to its end and written the cache file,
\* the file holds the known keys and the counters that memory holds.
C35_CycleEndsFlushed ==
    [][(bpc = "finish" /\ bpc' = "publish" /\ bFile' # bFile) =>
          bFile' = SavedCache(bKnown', bFiller', bStats')]_vars
----------------------------------------------------------------------------
(* Claims about the classification *)

\* the end is given as a number / is a number the code takes as an end time
EndGiven(e) == e.kind = "num"
EndKnown(e) == e.kind = "num" /\ e.v > 0

\* C18, as claimed: for start > 0 exactly one status is assigned: Scheduled iff
\* start > now; Ended iff start <= now and the end is a number <= now; Active
\* iff start <= now and the end is no number or > now.
C18_StatusByTimestamps ==
    (rwAt = rwNow /\ rwStart > 0)
    => /\ rwStatus \in {"SCHEDULED", "ACTIVE", "ENDED"}
       /\ rwStatus = "SCHEDULED" <=> rwStart > rwNow
       /\ rwStatus = "ENDED" <=> (rwStart <= rwNow /\ EndGiven(rwEnd) /\ rwEnd.v <= rwNow)
       /\ rwStatus = "ACTIVE" <=> (rwStart <= rwNow /\ (~EndGiven(rwEnd) \/ rwEnd.v > rwNow))

\* C18, amended: the same with a known end being a number greater than 0; an
\* end that is absent, not a number, or a number <= 0 is unknown.
C18_StatusByKnownEnd ==
    (rwAt = rwNow /\ rwStart > 0)
    => /\ rwStatus \in {"SCHEDULED", "ACTIVE", "ENDED"}
       /\ rwStatus = "SCHEDULED" <=> rwStart > rwNow
       /\ rwStatus = "ENDED" <=> (rwStart <= rwNow /\ EndKnown(rwEnd) /\ rwEnd.v <= rwNow)
       /\ rwStatus = "ACTIVE" <=> (rwStart <= rwNow /\ (~EndKnown(rwEnd) \/ rwEnd.v > rwNow))

C18_Witness ==
    /\ rwAt = rwNow /\ rwStart > 0
    /\ rwEnd = [kind |-> "num", v |-> rwNow]
    /\ rwStatus = "ENDED"

StatusRank(s) ==
    CASE s = "SCHEDULED" -> 1 [] s = "ACTIVE" -> 2 [] s = "ENDED" -> 3 [] OTHER -> 0

\* C19: with start and end fixed and the clock not going back, the status of
\* successive polls only moves forward along Scheduled, Active, Ended: after
\* Ended always Ended, and never from Active back to Scheduled.
C19_StatusMovesForward ==
    rwPrev # "none" => StatusRank(rwPrev) <= StatusRank(rwStatus)

C19_Witness == rwPrev = "ACTIVE" /\ rwStatus = "ENDED" /\ rwAt = rwNow

----------------------------------------------------------------------------
(* Claims about the conflict monitor and the outcomes of its fetches *)

\* C12: after a cycle whose fetch failed with HTTP 403 the monitor halts: its
\* loop starts no further poll.
C12_HaltsAfterAuthFailure ==
    [][(wpc = "idle" /\ cyc.fetch = "auth") => wNow' = wNow]_vars

\* C13: when the API answers 403 from the first request on, the monitor has
\* published its one notification of the failure by the end of the first cycle.
C13_AuthFailureReported ==
    (wpc = "idle" /\ wNow = 1 /\ cyc.fetch = "auth") => cyc.send = "ok"

\* C14: a 404 for the wars makes get_war_data return a conflict with status
\* NotFound, which is not what it returns for a fetch that failed after its
\* retries.
C14_NotFoundIsClassified ==
    cyc.fetch = "notfound"
    => /\ warData.got = "data"
       /\ warData.status = "NOT_FOUND"
       /\ warData # FetchWarData("failed", upstream, "both", wNow)

\* C16: a 200 whose body is an error envelope is a failed fetch: in that cycle
\* it is not classified as a conflict, current_war_id and war_message_id stay
\* as they were, and nothing is published.
C16_EnvelopeIsAFailedFetch ==
    cyc.fetch = "envelope"
    => /\ warData.got # "data"
       /\ cyc.branch = "none"
       /\ cyc.send = "none"
       /\ mem.war_message_id = cyc.msg0

\* C20: when fewer than two parties could be obtained for a ranked war,
\* get_war_data still returns the classified conflict and the embed for it is
\* the "insufficient data" one.
C20_MissingPartiesClassified ==
    cyc.detail \in {"short", "timeout"}
    => /\ warData.got = "data"
       /\ warData.status # "NOT_FOUND"
       /\ EmbedFor(warData) = "INSUFFICIENT"


\* C38: a cycle in which get_war_data returns nothing (the fetch failed after
\* its retries, a 403 or a 404) or the channel cannot be resolved publishes
\* nothing, edits nothing and leaves current_war_id, war_message_id,
\* last_update and the state file as they were.
C38_SkippedCycleChangesNothing ==
    [][(wpc = "idle" /\ wNow' # wNow
        /\ (cyc'.fetch \in {"failed", "auth", "notfound"} \/ cyc'.end = "skipped"))
       => /\ mem' = mem
          /\ stateFile' = stateFile
          /\ msgs' = msgs
          /\ wpc' = "idle"
          /\ cyc'.send = "none" /\ cyc'.edit = "none"]_vars

\* a 404 arrives while a message is associated with a ranked war
C38_Witness ==
    /\ wpc = "idle" /\ cyc.fetch = "notfound" /\ cyc.end = "skipped"
    /\ mem.current_war_id \in WarIds
    /\ mem.war_message_id \in DOMAIN msgs
    /\ msgs[mem.war_message_id].alive
    /\ stateFile = SavedState(mem)

----------------------------------------------------------------------------
(* Claims about the progress bar *)

\* floor(n / d) for d > 0
FloorOf(n, d) == n \div d

\* floor(min(current / target, 1) * length), clamped to [0, length]
ClampedFill(current, target, length) ==
    LET f == IF current >= target THEN length ELSE FloorOf(current * length, target)
    IN IF f < 0 THEN 0 ELSE IF f > length THEN length ELSE f

\* C29: the bar create_progress_bar returns has exactly `length` segments, of
\* which floor(min(current / target, 1) * length), clamped to [0, length], are
\* filled when target > 0, and none when target <= 0.
C29_BarHasLengthSegments ==
    barOut # NoBar =>
        /\ barOut.filled + barOut.empty = barLength
        /\ barOut.filled = IF barTarget > 0
                           THEN ClampedFill(barCurrent, barTarget, barLength)
                           ELSE 0

----------------------------------------------------------------------------
(* Claims about the dedup key *)

\* the words of a reason, letter case apart: what is left of it when case and
\* the whitespace around and between its words are disregarded
RECURSIVE WordsFrom(_, _, _)
WordsFrom(s, word, done) ==
    IF s = <<>>
    THEN IF word = <<>> THEN done ELSE Append(done, word)
    ELSE IF IsSpace(Head(s))
         THEN WordsFrom(Tail(s), <<>>, IF word = <<>> THEN done ELSE Append(done, word))
         ELSE WordsFrom(Tail(s), Append(word, LowerChar(Head(s))), done)
WordsOf(s) == WordsFrom(s, <<>>, <<>>)

\* the poster a posting is attributed to: nobody when it is anonymous, else
\* the poster's id, else the poster's name (case and outer whitespace apart)
PosterOf(p) ==
    IF p.is_anonymous THEN <<"anonymous">>
    ELSE IF p.lister_id # 0 THEN <<"id", p.lister_id>>
    ELSE IF p.lister_name # <<>> THEN <<"name", Lower(Strip(p.lister_name))>>
    ELSE <<"nobody">>

SameKeyParts(p, q) ==
    /\ p.target_id = q.target_id
    /\ p.reward = q.reward
    /\ p.quantity = q.quantity
    /\ PosterOf(p) = PosterOf(q)
    /\ WordsOf(p.reason) = WordsOf(q.reason)

\* C22: two postings with the same target id, reward, quantity, poster (every
\* anonymous poster counting as the same one) and reason (letter case and
\* whitespace apart) have the same dedup key, whatever their target names,
\* posted times and, when anonymous, poster ids and names.
C22_KeyOfNormalizedParts ==
    (ukKeyA # NoKey /\ SameKeyParts(ukA, ukB)) => ukKeyA = ukKeyB

\* two anonymous postings that differ in poster id, poster name, target name,
\* posted time and in the case and whitespace of the reason, with one key
C22_Witness ==
    /\ ukKeyA # NoKey
    /\ ukKeyA = ukKeyB
    /\ ukA.is_anonymous /\ ukB.is_anonymous
    /\ ukA.lister_id # ukB.lister_id
    /\ ukA.lister_name # ukB.lister_name
    /\ ukA.target_name # ukB.target_name
    /\ ukA.posted_time # ukB.posted_time
    /\ ukA.reason = <<"a", " ", "A">>
    /\ ukB.reason = <<"A", "\t", "a">>
----------------------------------------------------------------------------
(* Claims about the monitor task's lifecycle and the event loop *)

\* C25: stop_monitoring cancels the monitor task at whatever suspension point
\* it is in, writes the monitor's current in-memory record to its file before
\* returning, and after it returns that monitor's loop issues no further
\* fetch, publish or edit: once stop() has returned, the task has ended by the
\* cancellation, the loop took no step between cancel() and its end and takes
\* none afterwards; and the step by which stop() returns hands the record then
\* in memory to the file, which holds it unless the write failed.
C25_StopCancelsAndFlushes ==
    /\ [](stopc.pc = "returned" =>
            /\ mon[stopc.inst].task \in {"none", "cancelled"}
            /\ ~mon[stopc.inst].is_monitoring
            /\ ~stopc.during
            /\ ~stopc.after)
    /\ [][(stopc.pc = "await" /\ stopc'.pc = "returned") =>
            /\ stopc'.wrote = mon'[stopc.inst].rec
            /\ lFile' \in {lFile, mon'[stopc.inst].rec}]_vars

C25_Witness ==
    /\ stopc.pc = "returned"
    /\ mon[stopc.inst].task = "cancelled"
    /\ mon[stopc.inst].lastErr = "publish"
    /\ mon[stopc.inst].rec > 0
    /\ lFile = mon[stopc.inst].rec
    /\ cmd.pc = "none"

\* C26: no failure inside a cycle terminates a monitor loop: from wherever a
\* running loop is, after a fetch, publish or persistence error too, it comes
\* to poll again, unless is_monitoring was cleared (which stop_monitoring does
\* as it cancels the task).
C26_LoopPollsAgain ==
    \A i \in Insts :
        (mon[i].task = "live" /\ mon[i].loc # "fetch")
            ~> (mon[i].loc = "fetch" \/ ~mon[i].is_monitoring)

C26_Witness ==
    \E i \in Insts :
        /\ mon[i].task = "live"
        /\ mon[i].is_monitoring
        /\ mon[i].loc = "fetch"
        /\ mon[i].lastErr = "publish"

\* the instances whose loop task has not ended
Loops == {i \in Insts : mon[i].task \in {"live", "cancelling"}}

\* the instances that are to write the module's file: by a loop, by a manual
\* check in progress, or by a stop_monitoring that has yet to save
Writers ==
    Loops \cup (IF cmd.pc = "check" /\ CommandSaves(lMod) THEN {cmd.inst} ELSE {})
          \cup (IF stopc.pc = "await" THEN {stopc.inst} ELSE {})

\* C27: at any time at most one monitor loop and one monitor instance write a
\* given cache/state file, whatever calls of start() and manual checks overlap.
C27_SingleWriter == Cardinality(Loops) <= 1 /\ Cardinality(Writers) <= 1

\* the same for the conflict module as long as stop() is not called
WarSingleWriter == (lMod = "war" /\ stopc.pc = "none") => C27_SingleWriter

\* C28: no monitor blocks another's progress: while one monitor is performing
\* a network request, a spacing wait or its inter-cycle sleep, every other
\* monitor task can take its next step.
C28_NoMonitorBlocks ==
    \A t \in Monitors :
        evPhase[t] \in {"request", "spacing", "sleep"} =>
            \A u \in Monitors \ {t} : Able(u)

----------------------------------------------------------------------------
(* Claims: the inter-cycle sleep *)

\* C34: after an iteration that failed (the fetch returned nothing, the channel
\* is missing, or an exception was caught) a monitor sleeps the same interval
\* as after a successful one: 120 s in the war monitor, check_interval in the
\* bounty monitor.
C34_FailedCycleSleepsNormally ==
    slOut \in FailedOutcomes =>
        /\ slSlept = (IF slMod = "war" THEN WarSleep ELSE slInterval)
        /\ slGood # 0 => slSlept = slGood

----------------------------------------------------------------------------
(* Claims: calculate_time_remaining *)

\* the delta calculate_time_remaining renders, in half seconds: to the start
\* for a scheduled war, to the end for an active one
C36_Delta == IF trStatus = "SCHEDULED" THEN 2 * trStart - trNow ELSE 2 * trEnd - trNow

C36_Counts == trStatus = "SCHEDULED" \/ (trStatus = "ACTIVE" /\ trEnd > 0)

\* C36: calculate_time_remaining floors the delta to whole units: days and
\* hours when it is at least 86,400 s, otherwise hours and minutes when it is
\* at least 3,600 s, otherwise minutes only; the delta is to the start for
\* Scheduled and to the end for Active with a known end; Active without a
\* known end gives the "active" marker and Ended the "ended" marker.
C36_CascadeFloors ==
    trOut # <<>> =>
        /\ (C36_Counts /\ C36_Delta >= 2 * Day) =>
              /\ Len(trOut) = 5 /\ trOut[3] = "d" /\ trOut[5] = "h"
              /\ trOut[1] = (IF trStatus = "SCHEDULED" THEN "Starts in" ELSE "Ends in")
              /\ trOut[2] * 2 * Day <= C36_Delta
              /\ C36_Delta < (trOut[2] + 1) * 2 * Day
              /\ trOut[4] \in 0..23
              /\ (trOut[2] * Day + trOut[4] * Hour) * 2 <= C36_Delta
              /\ C36_Delta < (trOut[2] * Day + (trOut[4] + 1) * Hour) * 2
        /\ (C36_Counts /\ C36_Delta >= 2 * Hour /\ C36_Delta < 2 * Day) =>
              /\ Len(trOut) = 5 /\ trOut[3] = "h" /\ trOut[5] = "m"
              /\ trOut[1] = (IF trStatus = "SCHEDULED" THEN "Starts in" ELSE "Ends in")
              /\ trOut[4] \in 0..59
              /\ (trOut[2] * Hour + trOut[4] * Minute) * 2 <= C36_Delta
              /\ C36_Delta < (trOut[2] * Hour + (trOut[4] + 1) * Minute) * 2
        /\ (C36_Counts /\ C36_Delta > 0 /\ C36_Delta < 2 * Hour) =>
              /\ Len(trOut) = 3 /\ trOut[3] = "m"
              /\ trOut[1] = (IF trStatus = "SCHEDULED" THEN "Starts in" ELSE "Ends in")
              /\ trOut[2] * Minute * 2 <= C36_Delta
              /\ C36_Delta < (trOut[2] + 1) * Minute * 2
        /\ (trStatus = "ACTIVE" /\ trEnd = 0) => trOut = <<"WAR ACTIVE!">>
        /\ trStatus = "ENDED" => trOut = <<"WAR ENDED!">>

\* a scheduled war half a second short of a minute ahead of a day and an hour
C36_Witness ==
    /\ trStatus = "SCHEDULED"
    /\ 2 * trStart - trNow = 2 * (Day + Hour + Minute) - 1
    /\ trOut = <<"Starts in", 1, "d", 1, "h">>
====
